---------------------------- MODULE Spec2Model ----------------------------
(***************************************************************************)
(* Professor-name normalization, search-key index and fuzzy matcher of     *)
(* CourseScout (lib/utils/professor-name-utils.ts, lib/ratemyprof-api.ts). *)
(*                                                                         *)
(* Names are TLA+ strings; a character is a string of length 1 taken with  *)
(* SubSeq, so every string operation of the source (toLowerCase, trim,     *)
(* replace, split, includes, startsWith) is computed character by          *)
(* character.                                                              *)
(***************************************************************************)
EXTENDS Integers, Sequences, FiniteSets, TLC

VARIABLES
    \* normalizeName harness (professor-name-utils.ts)
    nn_pc,          \* "ready" | "normalized" | "renormalized" | "titled"
    nn_input,       \* the raw name handed to normalizeName
    nn_output,      \* normalizeName(nn_input)
    nn_again,       \* normalizeName(nn_output)
    nn_title,       \* the title put in front of nn_input
    nn_titled,      \* normalizeName(nn_title + " " + nn_input)
    \* isNameMatch harness (RateMyProfAPI.isNameMatch, one call)
    im_pc,              \* "call" | "returned"
    teacherName,        \* first argument: the roster candidate's name
    searchName,         \* second argument: the query
    returnLine,         \* source line of the return statement taken (0: none yet)
    matchResult,        \* the value returned
    actualMatches,      \* local of the token loop when the call returned
    hasFirstNameMatch,  \* local of the token loop when the call returned
    \* RateMyProfAPI instance and one searchProfessor call
    professorIndex,     \* this.professorIndex: key -> list of professors
    indexBuilt,         \* this.indexBuilt
    sp_pc,              \* "idle" | "fetching" | "fetched" | "detail" | "done"
    sp_name,            \* searchProfessor's argument name
    professors,         \* the roster the fetch returned
    candidateProfs,     \* the narrowed candidates, in Set insertion order
    matchingProf,       \* the professor the loop selected, or NullProf
    sp_result,          \* what searchProfessor returned
    \* generateSearchNames harness (professor-name-utils.ts)
    gsn_pc,             \* "call" | "returned"
    fullName,           \* the argument of generateSearchNames
    variations,         \* the array generateSearchNames returned
    \* one getMultipleProfessors call on the RateMyProfAPI instance
    mp_pc,              \* "idle" | "prefetch" | "loop" | "searchfetch" | "lookup"
                        \* | "detail" | "delay" | "done"
    professorNames,     \* the argument professorNames
    mp_i,               \* position in professorNames of the name being looked up
    results,            \* the results array
    fetchCount,         \* number of rmp.get_professor_list() calls made
    buildCount,         \* number of buildProfessorIndex calls made
    builtRoster,        \* the argument of the most recent buildProfessorIndex call
    replacedRoster,     \* the argument of the buildProfessorIndex call before it
    \* ProfessorService, the Professor table and the clock
    db,                 \* the rows of the Professor table, in insertion order
    now,                \* Date.now(), in clock ticks
    callCount,          \* number of getProfessorData calls made
    ps_pc,              \* "idle" | "find" | "fetch" | "refresh"
    ps_name,            \* the argument name of the current (or last) call
    ps_at,              \* Date.now() during that call
    ps_cached,          \* <<row>> found by findInDatabase, <<>> for null
    ps_requested,       \* the call has sent a request to RateMyProfessors
    ps_node,            \* <<node>> returned by fetchProfessorFromRmp, <<>> for null
    ps_result,          \* <<row>> returned by getProfessorData, <<>> for null
    ps_prev,            \* name, time and outcome of the call before
    \* fetchProfessorFromRmp harness (ProfessorService, one call)
    rf_pc,              \* "call" | "returned"
    rf_name,            \* the argument name
    rf_ok,              \* the request gave a response with response.ok
    rf_edges,           \* the edges of the response body
    rf_node,            \* <<node>> returned, <<>> for null
    \* one pass of the inner loop of isNameMatch (lines 158-213)
    tk_pc,              \* "call" | "returned"
    tk_sPart,           \* the query token sPart
    tk_tPart,           \* the candidate token tPart
    tk_found,           \* foundMatch after the pass
    tk_line,            \* source line that set foundMatch (0: none)
    \* concurrent getProfessorData calls on the ProfessorService (they share
    \* db and now); each variable maps a call to its value
    cc_pc,              \* "idle" | "find" | "fetch" | "create" | "refresh" | "update"
                        \* | "mark" | "done"
    cc_name,            \* the argument name
    cc_cached,          \* <<row>> found by findInDatabase, <<>> for null
    cc_node,            \* <<node>> returned by fetchProfessorFromRmp, <<>> for null
    cc_result,          \* <<row>> returned by getProfessorData, <<>> for null
    cc_db0,             \* the Professor table before the first call
    createCount,        \* number of rows prisma.professor.create has stored
    \* concurrent searchProfessor calls on the one RateMyProfAPI instance
    \* (they share professorIndex and indexBuilt); each variable but the
    \* last maps a call to its value
    cs_pc,              \* "idle" | "fetching" | "fetched" | "detail" | "done"
    cs_name,            \* the argument name
    cs_fetch,           \* its own get_professor_list(): "none" | "ok" | "failed"
    cs_roster,          \* the roster its own fetch returned
    cs_unavailable,     \* it returned at line 336 (index not available)
    cs_selected,        \* matchingProf after its loop, or NullProf
    cs_result,          \* what it returned
    cs_built            \* the argument of the most recent buildProfessorIndex call

nn_vars == <<nn_pc, nn_input, nn_output, nn_again, nn_title, nn_titled>>

im_vars == <<im_pc, teacherName, searchName, returnLine, matchResult, actualMatches,
             hasFirstNameMatch>>

sp_vars == <<professorIndex, indexBuilt, sp_pc, sp_name, professors, candidateProfs,
             matchingProf, sp_result>>

gsn_vars == <<gsn_pc, fullName, variations>>

\* The variables of the harnesses and services added after the three above.
mp_vars == <<mp_pc, professorNames, mp_i, results, fetchCount, buildCount, builtRoster,
             replacedRoster>>

ps_vars == <<db, now, callCount, ps_pc, ps_name, ps_at, ps_cached, ps_requested, ps_node,
             ps_result, ps_prev>>

rf_vars == <<rf_pc, rf_name, rf_ok, rf_edges, rf_node>>

\* The variable groups added after ps_vars.
tk_vars == <<tk_pc, tk_sPart, tk_tPart, tk_found, tk_line>>

cc_vars == <<cc_pc, cc_name, cc_cached, cc_node, cc_result, cc_db0, createCount>>

cs_vars == <<cs_pc, cs_name, cs_fetch, cs_roster, cs_unavailable, cs_selected, cs_result,
             cs_built>>

more_vars == <<rf_vars, tk_vars, cc_vars, cs_vars>>

ext_vars == <<gsn_vars, mp_vars, ps_vars, more_vars>>

vars == <<nn_vars, im_vars, sp_vars, ext_vars>>

---------------------------------------------------------------------------
(* Bounds *)

\* Number of pieces an input name of the normalizeName harness is made of.
MaxPieces == 3

\* Number of professors in a fetched roster.
MaxRoster == 2

\* Number of names handed to one getMultipleProfessors call.
MaxNames == 2

\* Number of getProfessorData calls made on the service.
MaxCalls == 2

\* Number of getProfessorData calls in progress at the same time.
MaxConcurrent == 2

\* Number of searchProfessor calls in progress at the same time.
MaxSearches == 2

\* Number of edges in a RateMyProfessors response handed to the
\* fetchProfessorFromRmp harness.
MaxEdges == 3

---------------------------------------------------------------------------
(* Characters and JavaScript string primitives *)

Min(S) == CHOOSE x \in S : \A y \in S : x <= y
Max(S) == CHOOSE x \in S : \A y \in S : x >= y

LowerLetters == "abcdefghijklmnopqrstuvwxyz"
UpperLetters == "ABCDEFGHIJKLMNOPQRSTUVWXYZ"
DigitChars == "0123456789_"

CharAt(s, i) == SubSeq(s, i, i)

CharsOf(class) == {CharAt(class, i) : i \in 1..Len(class)}

LowerSet == CharsOf(LowerLetters)
UpperSet == CharsOf(UpperLetters)
WordCharSet == LowerSet \cup UpperSet \cup CharsOf(DigitChars)

\* [a-z]
IsLowerLetter(c) == c \in LowerSet

\* \s of a JavaScript regular expression, and what String.prototype.trim removes
IsSpace(c) == c = " " \/ c = "\t"

\* \w of a JavaScript regular expression: [A-Za-z0-9_]
IsWordChar(c) == c \in WordCharSet

LowerMap ==
    [c \in UpperSet |->
        CharAt(LowerLetters, CHOOSE i \in 1..Len(UpperLetters) : CharAt(UpperLetters, i) = c)]

LowerOf(c) == IF c \in UpperSet THEN LowerMap[c] ELSE c

RECURSIVE LowerFrom(_, _)
LowerFrom(s, i) == IF i > Len(s) THEN "" ELSE LowerOf(CharAt(s, i)) \o LowerFrom(s, i + 1)

\* String.prototype.toLowerCase
toLowerCase(s) == LowerFrom(s, 1)

\* String.prototype.trim
trim(s) ==
    LET keep == {i \in 1..Len(s) : ~IsSpace(CharAt(s, i))}
    IN  IF keep = {} THEN "" ELSE SubSeq(s, Min(keep), Max(keep))

\* s.startsWith(p) at position i of s
StartsWithAt(s, i, p) == i + Len(p) - 1 <= Len(s) /\ SubSeq(s, i, i + Len(p) - 1) = p

\* String.prototype.startsWith
startsWith(s, p) == StartsWithAt(s, 1, p)

\* String.prototype.includes
includes(s, p) == \E i \in 1..(Len(s) + 1) : StartsWithAt(s, i, p)

\* \b of a regular expression between s[i-1] and s[i]
WordBoundaryAt(s, i) ==
    LET before == i > 1 /\ IsWordChar(CharAt(s, i - 1))
        after  == i <= Len(s) /\ IsWordChar(CharAt(s, i))
    IN  before # after

\* \s* from position j: the position of the first character it does not take
SkipSpaces(s, j) ==
    LET rest == {k \in j..Len(s) : ~IsSpace(CharAt(s, k))}
    IN  IF rest = {} THEN Len(s) + 1 ELSE Min(rest)

---------------------------------------------------------------------------
(* normalizeName: lib/utils/professor-name-utils.ts *)

\* The alternation (dr|prof|professor|mr|ms|mrs), tried left to right.
TitleAlternatives == <<"dr", "prof", "professor", "mr", "ms", "mrs">>

\* A match of /\b(dr|prof|professor|mr|ms|mrs)\.?\s*/ starting at position i:
\* the position after the match, or 0 when there is none. There is no \b
\* after the alternation: the first alternative that is a prefix of the rest
\* is taken, whatever follows it.
TitlePrefixMatchEnd(s, i) ==
    LET alts == {k \in 1..Len(TitleAlternatives) : StartsWithAt(s, i, TitleAlternatives[k])}
    IN  IF ~WordBoundaryAt(s, i) \/ alts = {} THEN 0
        ELSE LET afterTitle == i + Len(TitleAlternatives[Min(alts)])
                 afterDot == IF afterTitle <= Len(s) /\ CharAt(s, afterTitle) = "."
                             THEN afterTitle + 1 ELSE afterTitle
             IN  SkipSpaces(s, afterDot)

RECURSIVE RemoveTitlePrefixesFrom(_, _)
RemoveTitlePrefixesFrom(s, i) ==
    IF i > Len(s) THEN ""
    ELSE LET e == TitlePrefixMatchEnd(s, i)
         IN  IF e = 0 THEN CharAt(s, i) \o RemoveTitlePrefixesFrom(s, i + 1)
             ELSE RemoveTitlePrefixesFrom(s, e)

\* .replace(/\b(dr|prof|professor|mr|ms|mrs)\.?\s*/g, '')
RemoveTitlePrefixes(s) == RemoveTitlePrefixesFrom(s, 1)

RECURSIVE KeepLettersAndSpacesFrom(_, _)
KeepLettersAndSpacesFrom(s, i) ==
    IF i > Len(s) THEN ""
    ELSE (IF IsLowerLetter(CharAt(s, i)) \/ IsSpace(CharAt(s, i)) THEN CharAt(s, i) ELSE "")
         \o KeepLettersAndSpacesFrom(s, i + 1)

\* .replace(/[^a-z\s]/g, '')
KeepLettersAndSpaces(s) == KeepLettersAndSpacesFrom(s, 1)

\* normalizeName without its final .trim()
normalizeName_NoTrim(name) == KeepLettersAndSpaces(RemoveTitlePrefixes(toLowerCase(name)))

normalizeName(name) == trim(KeepLettersAndSpaces(RemoveTitlePrefixes(toLowerCase(name))))

---------------------------------------------------------------------------
(* RateMyProfAPI.isNameMatch: lib/ratemyprof-api.ts *)

\* s.split(c) for a one-character separator c
RECURSIVE SplitChar(_, _)
SplitChar(s, c) ==
    LET hits == {i \in 1..Len(s) : CharAt(s, i) = c}
    IN  IF hits = {} THEN <<s>>
        ELSE <<SubSeq(s, 1, Min(hits) - 1)>> \o SplitChar(SubSeq(s, Min(hits) + 1, Len(s)), c)

\* s.split(/\s+/)
RECURSIVE SplitWhitespace(_)
SplitWhitespace(s) ==
    LET hits == {i \in 1..Len(s) : IsSpace(CharAt(s, i))}
    IN  IF hits = {} THEN <<s>>
        ELSE <<SubSeq(s, 1, Min(hits) - 1)>>
             \o SplitWhitespace(SubSeq(s, SkipSpaces(s, Min(hits)), Len(s)))

\* .filter(p => p.length > 0)
NonEmptyParts(parts) == SelectSeq(parts, LAMBDA p : Len(p) > 0)

\* .filter(w => w.length > 1)
LongerThanOne(parts) == SelectSeq(parts, LAMBDA w : Len(w) > 1)

\* A match of /\b(dr|prof|professor|mr|ms|mrs)\b\.?\s*/gi starting at
\* position i of an already lowercased string: the position after the match,
\* or 0. The alternation backtracks to the first title followed by a \b.
TitleWordMatchEnd(s, i) ==
    LET alts == {k \in 1..Len(TitleAlternatives) :
                    /\ StartsWithAt(s, i, TitleAlternatives[k])
                    /\ WordBoundaryAt(s, i + Len(TitleAlternatives[k]))}
    IN  IF ~WordBoundaryAt(s, i) \/ alts = {} THEN 0
        ELSE LET afterTitle == i + Len(TitleAlternatives[Min(alts)])
                 afterDot == IF afterTitle <= Len(s) /\ CharAt(s, afterTitle) = "."
                             THEN afterTitle + 1 ELSE afterTitle
             IN  SkipSpaces(s, afterDot)

RECURSIVE RemoveTitleWordsFrom(_, _)
RemoveTitleWordsFrom(s, i) ==
    IF i > Len(s) THEN ""
    ELSE LET e == TitleWordMatchEnd(s, i)
         IN  IF e = 0 THEN CharAt(s, i) \o RemoveTitleWordsFrom(s, i + 1)
             ELSE RemoveTitleWordsFrom(s, e)

\* .replace(/\b(dr|prof|professor|mr|ms|mrs)\b\.?\s*/gi, '')
RemoveTitleWords(s) == RemoveTitleWordsFrom(s, 1)

\* nicknameMap of isNameMatch
nicknameMap ==
    "michael" :> {"mike", "mick"} @@ "mike" :> {"michael"} @@
    "william" :> {"bill", "will", "billy"} @@ "bill" :> {"william"} @@ "will" :> {"william"} @@
    "robert" :> {"rob", "bob", "bobby"} @@ "rob" :> {"robert"} @@ "bob" :> {"robert"} @@
    "richard" :> {"rick", "dick", "rich"} @@ "rick" :> {"richard"} @@
    "james" :> {"jim", "jimmy"} @@ "jim" :> {"james"} @@
    "john" :> {"johnny", "jack"} @@ "johnny" :> {"john"} @@ "jack" :> {"john"} @@
    "david" :> {"dave", "davy"} @@ "dave" :> {"david"} @@
    "daniel" :> {"dan", "danny"} @@ "dan" :> {"daniel"} @@
    "anthony" :> {"tony"} @@ "tony" :> {"anthony"} @@
    "christopher" :> {"chris"} @@ "chris" :> {"christopher"} @@
    "matthew" :> {"matt"} @@ "matt" :> {"matthew"} @@
    "andrew" :> {"andy", "drew"} @@ "andy" :> {"andrew"} @@ "drew" :> {"andrew"} @@
    "joseph" :> {"joe", "joey"} @@ "joe" :> {"joseph"} @@
    "thomas" :> {"tom", "tommy"} @@ "tom" :> {"thomas"} @@
    "elizabeth" :> {"liz", "beth", "betty"} @@ "liz" :> {"elizabeth"} @@ "beth" :> {"elizabeth"} @@
    "jennifer" :> {"jen", "jenny"} @@ "jen" :> {"jennifer"} @@
    "jessica" :> {"jess", "jessie"} @@ "jess" :> {"jessica"} @@
    "catherine" :> {"cathy", "cat", "kate"} @@ "cathy" :> {"catherine"} @@ "kate" :> {"catherine"} @@
    "margaret" :> {"maggie", "meg", "peg"} @@ "maggie" :> {"margaret"} @@
    "patricia" :> {"pat", "patty", "tricia"} @@ "pat" :> {"patricia"} @@
    "susan" :> {"sue", "susie"} @@ "sue" :> {"susan"}

\* nicknameMap[part] || []
VariantsOf(part) == IF part \in DOMAIN nicknameMap THEN nicknameMap[part] ELSE {}

\* Lines 66-68: some word (length > 1) of one name equals, contains or is
\* contained in a word of the other.
hasAnyCommonWord(t, s) ==
    LET tWords == LongerThanOne(SplitChar(t, " "))
        sWords == LongerThanOne(SplitChar(s, " "))
    IN  \E i \in 1..Len(tWords) : \E j \in 1..Len(sWords) :
            \/ tWords[i] = sWords[j]
            \/ includes(tWords[i], sWords[j])
            \/ includes(sWords[j], tWords[i])

\* Lines 79-80: inner.length > 3 && outer.includes(inner) && inner.length / outer.length > 0.4
SubstantiallyContains(outer, inner) ==
    /\ Len(inner) > 3
    /\ includes(outer, inner)
    /\ 10 * Len(inner) > 4 * Len(outer)

\* The nickname test in one direction only: the candidate token must be a
\* listed variant of the query token.
TokenCorresponds_OneWay(sPart, tPart) ==
    \/ tPart = sPart
    \/ /\ Len(sPart) > 2
       /\ Len(tPart) > 2
       /\ \/ includes(tPart, sPart) /\ 2 * Len(sPart) > Len(tPart)
          \/ includes(sPart, tPart) /\ 2 * Len(tPart) > Len(sPart)
    \/ Len(sPart) = 1 /\ Len(tPart) = 1 /\ sPart = tPart
    \/ Len(sPart) = 1 /\ Len(tPart) > 1 /\ startsWith(tPart, sPart)
    \/ Len(tPart) = 1 /\ Len(sPart) > 1 /\ startsWith(sPart, tPart)
    \/ tPart \in VariantsOf(sPart)
    \/ /\ includes(sPart, "-")
       /\ \E k \in 1..Len(SplitChar(sPart, "-")) : SplitChar(sPart, "-")[k] = tPart
    \/ /\ includes(tPart, "-")
       /\ \E k \in 1..Len(SplitChar(tPart, "-")) : SplitChar(tPart, "-")[k] = sPart

\* Lines 159-213: the body of the inner loop, one query token against one
\* candidate token.
TokenCorresponds(sPart, tPart) ==
    \/ tPart = sPart
    \/ /\ Len(sPart) > 2
       /\ Len(tPart) > 2
       /\ \/ includes(tPart, sPart) /\ 2 * Len(sPart) > Len(tPart)
          \/ includes(sPart, tPart) /\ 2 * Len(tPart) > Len(sPart)
    \/ Len(sPart) = 1 /\ Len(tPart) = 1 /\ sPart = tPart
    \/ Len(sPart) = 1 /\ Len(tPart) > 1 /\ startsWith(tPart, sPart)
    \/ Len(tPart) = 1 /\ Len(sPart) > 1 /\ startsWith(sPart, tPart)
    \/ tPart \in VariantsOf(sPart)
    \/ sPart \in VariantsOf(tPart)
    \/ /\ includes(sPart, "-")
       /\ \E k \in 1..Len(SplitChar(sPart, "-")) : SplitChar(sPart, "-")[k] = tPart
    \/ /\ includes(tPart, "-")
       /\ \E k \in 1..Len(SplitChar(tPart, "-")) : SplitChar(tPart, "-")[k] = sPart

\* The substring test with the boundary included
SubstantialSubstring_AtLeastHalf(sPart, tPart) ==
    /\ Len(sPart) > 2
    /\ Len(tPart) > 2
    /\ \/ includes(tPart, sPart) /\ 2 * Len(sPart) >= Len(tPart)
       \/ includes(sPart, tPart) /\ 2 * Len(tPart) >= Len(sPart)

\* Lines 165-167: both tokens longer than 2 and one includes the other with
\* a length ratio above 0.5
SubstantialSubstring(sPart, tPart) ==
    /\ Len(sPart) > 2
    /\ Len(tPart) > 2
    /\ \/ includes(tPart, sPart) /\ 2 * Len(sPart) > Len(tPart)
       \/ includes(sPart, tPart) /\ 2 * Len(tPart) > Len(sPart)

\* Lines 158-213: the line of the statement foundMatch = true that one pass
\* of the inner loop reaches first, 0 when it reaches none
foundMatchLine(sPart, tPart) ==
    IF tPart = sPart THEN 160
    ELSE IF SubstantialSubstring(sPart, tPart) THEN 168
    ELSE IF Len(sPart) = 1 /\ Len(tPart) = 1 /\ sPart = tPart THEN 175
    ELSE IF Len(sPart) = 1 /\ Len(tPart) > 1 /\ startsWith(tPart, sPart) THEN 181
    ELSE IF Len(tPart) = 1 /\ Len(sPart) > 1 /\ startsWith(sPart, tPart) THEN 185
    ELSE IF tPart \in VariantsOf(sPart) \/ sPart \in VariantsOf(tPart) THEN 194
    ELSE IF /\ includes(sPart, "-")
            /\ \E k \in 1..Len(SplitChar(sPart, "-")) : SplitChar(sPart, "-")[k] = tPart
         THEN 203
    ELSE IF /\ includes(tPart, "-")
            /\ \E k \in 1..Len(SplitChar(tPart, "-")) : SplitChar(tPart, "-")[k] = sPart
         THEN 210
    ELSE 0

\* foundMatch after the inner loop over cleanTParts
foundMatch(sPart, cleanTParts) ==
    \E k \in 1..Len(cleanTParts) : TokenCorresponds(sPart, cleanTParts[k])

\* actualMatches after the outer loop
CountMatches(cleanSParts, cleanTParts) ==
    Cardinality({i \in 1..Len(cleanSParts) : foundMatch(cleanSParts[i], cleanTParts)})

\* hasFirstNameMatch set by any matched part, not only the first one.
FirstNameMatched_Any(cleanSParts, cleanTParts) ==
    \E i \in 1..Len(cleanSParts) : foundMatch(cleanSParts[i], cleanTParts)

\* hasFirstNameMatch after the outer loop: a matched part with
\* cleanSParts.indexOf(sPart) === 0
FirstNameMatched(cleanSParts, cleanTParts) ==
    \E i \in 1..Len(cleanSParts) :
        /\ foundMatch(cleanSParts[i], cleanTParts)
        /\ cleanSParts[i] = cleanSParts[1]

\* A lower bound of one matched token in place of two.
minMatches_One(cleanSParts) == Max({1, (Len(cleanSParts) + 1) \div 2})

\* Math.max(2, Math.ceil(cleanSParts.length * 0.5))
minMatches(cleanSParts) == Max({2, (Len(cleanSParts) + 1) \div 2})

Returned(line, result, matches, first) ==
    [line |-> line, result |-> result, actualMatches |-> matches, hasFirstNameMatch |-> first]

\* One call of isNameMatch: the return statement taken (its source line), the
\* value returned and the loop's locals (0 and FALSE before they exist).
isNameMatchCall(teacher, search) ==
    LET t == trim(toLowerCase(teacher))
        s == trim(toLowerCase(search))
        tWords == LongerThanOne(SplitChar(t, " "))
        sWords == LongerThanOne(SplitChar(s, " "))
        cleanTeacherName == RemoveTitleWords(t)
        cleanSearchName == RemoveTitleWords(s)
        cleanTParts == NonEmptyParts(SplitChar(cleanTeacherName, " "))
        cleanSParts == NonEmptyParts(SplitChar(cleanSearchName, " "))
        matches == CountMatches(cleanSParts, cleanTParts)
        first == FirstNameMatched(cleanSParts, cleanTParts)
    IN  IF t = s THEN Returned(61, TRUE, 0, FALSE)
        ELSE IF ~hasAnyCommonWord(t, s) /\ Len(tWords) > 0 /\ Len(sWords) > 0
             THEN Returned(74, FALSE, 0, FALSE)
        ELSE IF SubstantiallyContains(t, s) THEN Returned(79, TRUE, 0, FALSE)
        ELSE IF SubstantiallyContains(s, t) THEN Returned(80, TRUE, 0, FALSE)
        ELSE IF cleanTeacherName = cleanSearchName THEN Returned(143, TRUE, 0, FALSE)
        ELSE Returned(229, first /\ matches >= minMatches(cleanSParts), matches, first)

isNameMatch(teacher, search) == isNameMatchCall(teacher, search).result

---------------------------------------------------------------------------
(* RateMyProfAPI.generateSearchKeys, buildProfessorIndex, searchProfessor *)

\* Array.prototype.includes
InList(x, list) == \E i \in 1..Len(list) : list[i] = x

\* Set.add on a Set kept in insertion order
AddKey(keys, key) ==
    IF \E i \in 1..Len(keys) : keys[i] = key THEN keys ELSE Append(keys, key)

RECURSIVE AddKeys(_, _)
AddKeys(keys, more) ==
    IF more = <<>> THEN keys ELSE AddKeys(AddKey(keys, Head(more)), Tail(more))

\* nicknameMap of generateSearchKeys (smaller than that of isNameMatch)
keyNicknameMap ==
    "michael" :> <<"mike", "mick">> @@ "mike" :> <<"michael">> @@
    "william" :> <<"bill", "will">> @@ "bill" :> <<"william">> @@
    "robert" :> <<"rob", "bob">> @@ "richard" :> <<"rick", "dick">> @@
    "james" :> <<"jim">> @@ "john" :> <<"jack">> @@ "david" :> <<"dave">> @@
    "daniel" :> <<"dan">> @@ "anthony" :> <<"tony">> @@
    "christopher" :> <<"chris">> @@ "matthew" :> <<"matt">> @@
    "andrew" :> <<"andy">> @@ "joseph" :> <<"joe">> @@ "thomas" :> <<"tom">>

\* No key for the parts of a hyphenated word.
HyphenParts_None(words) == SubSeq(words, 1, 0)

\* Lines 249-255: the parts (length > 1) of every word that has a hyphen
RECURSIVE HyphenParts(_)
HyphenParts(words) ==
    IF words = <<>> THEN <<>>
    ELSE (IF includes(Head(words), "-")
          THEN LongerThanOne(SplitChar(Head(words), "-")) ELSE <<>>)
         \o HyphenParts(Tail(words))

\* Lines 266-270: the nicknames of every word that is in the map
RECURSIVE NicknameKeys(_)
NicknameKeys(words) ==
    IF words = <<>> THEN <<>>
    ELSE (IF Head(words) \in DOMAIN keyNicknameMap THEN keyNicknameMap[Head(words)] ELSE <<>>)
         \o NicknameKeys(Tail(words))

\* Line 234: name.toLowerCase().trim().replace(<titles>, '')
cleanNameOf(name) == RemoveTitleWords(trim(toLowerCase(name)))

\* generateSearchKeys without the full-name key of line 237.
generateSearchKeys_NoFullName(name) ==
    LET cleanName == cleanNameOf(name)
        words == LongerThanOne(SplitWhitespace(cleanName))
        firstLast == IF Len(words) >= 2
                     THEN <<words[1] \o " " \o words[Len(words)]>> ELSE <<>>
    IN  AddKeys(AddKeys(AddKeys(words, firstLast), HyphenParts(words)), NicknameKeys(words))

generateSearchKeys(name) ==
    LET cleanName == cleanNameOf(name)
        words == LongerThanOne(SplitWhitespace(cleanName))
        firstLast == IF Len(words) >= 2
                     THEN <<words[1] \o " " \o words[Len(words)]>> ELSE <<>>
    IN  AddKeys(AddKeys(AddKeys(AddKeys(<<cleanName>>, words), firstLast),
                        HyphenParts(words)),
                NicknameKeys(words))

\* this.professorIndex after clear(): a map without keys
EmptyIndex == [key \in {} |-> <<>>]

\* Lines 284-287: push prof on the list of key, creating the list if needed
IndexPush(index, key, prof) ==
    IF key \in DOMAIN index
    THEN [index EXCEPT ![key] = Append(@, prof)]
    ELSE index @@ (key :> <<prof>>)

RECURSIVE IndexKeys(_, _, _)
IndexKeys(index, keys, prof) ==
    IF keys = <<>> THEN index
    ELSE IndexKeys(IndexPush(index, Head(keys), prof), Tail(keys), prof)

RECURSIVE IndexProfessors(_, _)
IndexProfessors(index, profs) ==
    IF profs = <<>> THEN index
    ELSE IndexProfessors(IndexKeys(index, generateSearchKeys(Head(profs).name), Head(profs)),
                         Tail(profs))

\* The index buildProfessorIndex leaves in this.professorIndex
buildProfessorIndex(profs) == IndexProfessors(EmptyIndex, profs)

\* A clear() that leaves the map as it is.
clear_Nothing(index) == index

\* Line 276: this.professorIndex.clear()
clear(index) == EmptyIndex

\* buildProfessorIndex run on an instance whose index is index: the map is
\* cleared and then filled from profs.
\* A build that stops after the first professor of the roster
rebuildProfessorIndex_Partial(index, profs) ==
    IndexProfessors(clear(index), SubSeq(profs, 1, 1))

rebuildProfessorIndex(index, profs) == IndexProfessors(clear(index), profs)

\* Lines 348-353: the professors under the keys, in Set insertion order
RECURSIVE CollectCandidates(_, _, _)
CollectCandidates(index, keys, found) ==
    IF keys = <<>> THEN found
    ELSE CollectCandidates(index, Tail(keys),
            IF Head(keys) \in DOMAIN index THEN AddKeys(found, index[Head(keys)]) ELSE found)

\* null, for a variable that holds a professor of the roster
NullProf == [id |-> 0, name |-> "", num_ratings |-> 0]

\* Lines 360-367: the first candidate that isNameMatch accepts
RECURSIVE FirstMatch(_, _)
FirstMatch(candidates, name) ==
    IF candidates = <<>> THEN NullProf
    ELSE IF isNameMatch(Head(candidates).name, name) THEN Head(candidates)
    ELSE FirstMatch(Tail(candidates), name)

\* Lines 339-367 of searchProfessor on an index built from roster: the
\* professor selected for name, or NullProf.
SearchSelects(roster, name) ==
    FirstMatch(CollectCandidates(buildProfessorIndex(roster), generateSearchKeys(name), <<>>),
               name)

---------------------------------------------------------------------------
(* generateSearchNames: lib/utils/professor-name-utils.ts *)

\* A character of the separator class [\s-]
IsSpaceOrHyphen(c) == IsSpace(c) \/ c = "-"

\* s.split(/[\s-]+/)
RECURSIVE SplitSpacesHyphens(_)
SplitSpacesHyphens(s) ==
    LET hits == {i \in 1..Len(s) : IsSpaceOrHyphen(CharAt(s, i))}
    IN  IF hits = {} THEN <<s>>
        ELSE LET rest == {k \in Min(hits)..Len(s) : ~IsSpaceOrHyphen(CharAt(s, k))}
                 next == IF rest = {} THEN Len(s) + 1 ELSE Min(rest)
             IN  <<SubSeq(s, 1, Min(hits) - 1)>> \o SplitSpacesHyphens(SubSeq(s, next, Len(s)))

\* The variations Set of generateSearchNames, in insertion order: the
\* normalized name, every part longer than one character, first + last part
\* and first initial + last part.
generateSearchNames(name) ==
    LET normalized == normalizeName(name)
        parts == NonEmptyParts(SplitSpacesHyphens(normalized))
        combos == IF Len(parts) >= 2
                  THEN <<parts[1] \o " " \o parts[Len(parts)],
                         CharAt(parts[1], 1) \o " " \o parts[Len(parts)]>>
                  ELSE <<>>
    IN  AddKeys(AddKeys(<<normalized>>, LongerThanOne(parts)), combos)

---------------------------------------------------------------------------
(* ProfessorService: lib/services/professor-service.ts *)

\* lib/constants.ts
PROFESSOR_DATA_STALE_DAYS == 30

\* Clock ticks per day: the clock of the model counts half days, where
\* the source counts milliseconds and divides by 24 * 60 * 60 * 1000.
TicksPerDay == 2

\* Line 69: Math.floor((Date.now() - lastCheckedAt.getTime()) / (24 * 60 * 60 * 1000))
daysSinceCheck(time, lastCheckedAt) == (time - lastCheckedAt) \div TicksPerDay

\* The absent value of a nullable column
Null == "null"

\* buildFullName: `${node.firstName ?? ''} ${node.lastName ?? ''}`.trim()
buildFullName(node) == trim(node.firstName \o " " \o node.lastName)

\* .split(' ').filter(Boolean)
SpaceParts(s) == NonEmptyParts(SplitChar(s, " "))

\* scoreOfParts without the test of the last parts (line 258)
scoreOfParts_NoGate(targetParts, candidateParts) ==
    IF targetParts = <<>> \/ candidateParts = <<>> THEN 0
    ELSE 3 + (IF targetParts[1] = candidateParts[1] THEN 2 ELSE 0)
           + Cardinality({i \in 1..Len(candidateParts) : InList(candidateParts[i], targetParts)})

\* Lines 255-273 of scoreCandidate, on the parts of the two names: 0 unless
\* the last parts are equal, else 3, plus 2 for equal first parts, plus the
\* number of candidate parts that are target parts.
scoreOfParts(targetParts, candidateParts) ==
    IF targetParts = <<>> \/ candidateParts = <<>> THEN 0
    ELSE IF targetParts[Len(targetParts)] # candidateParts[Len(candidateParts)] THEN 0
    ELSE 3 + (IF targetParts[1] = candidateParts[1] THEN 2 ELSE 0)
           + Cardinality({i \in 1..Len(candidateParts) : InList(candidateParts[i], targetParts)})

\* scoreCandidate: the score of a node for the normalized target name (a
\* candidate name that normalizes to "" has no parts and scores 0)
scoreCandidate(node, normalizedTarget) ==
    scoreOfParts(SpaceParts(normalizedTarget),
                 SpaceParts(normalizeName(buildFullName(node))))

\* The comparator without its second key (line 212)
SortsBefore_ScoreOnly(sa, ra, sb, rb) == sa > sb

\* Lines 208-213: the comparator puts a node of score sa and numRatings ra
\* before a node of score sb and numRatings rb
SortsBefore(sa, ra, sb, rb) == sa > sb \/ (sa = sb /\ ra > rb)

\* Lines 202-215: the first of the edges after the filter (score > 0) and
\* the stable sort, <<>> when the filter leaves none; score[i] is the score
\* of edges[i].
firstSorted(edges, score) ==
    IF \A i \in 1..Len(edges) : score[i] = 0 THEN <<>>
    ELSE <<edges[CHOOSE i \in 1..Len(edges) :
                    /\ score[i] > 0
                    /\ \A j \in 1..Len(edges) :
                          /\ ~SortsBefore(score[j], edges[j].numRatings,
                                          score[i], edges[i].numRatings)
                          /\ (j < i /\ score[j] > 0) =>
                                SortsBefore(score[i], edges[i].numRatings,
                                            score[j], edges[j].numRatings)]>>

\* Lines 199-201: every edge scored against the normalized target
scoresOf(edges, normalizedTarget) ==
    [i \in 1..Len(edges) |-> scoreCandidate(edges[i], normalizedTarget)]

\* Lines 194-215 of fetchProfessorFromRmp
bestCandidate(edges, name) == firstSorted(edges, scoresOf(edges, normalizeName(name)))

\* Lines 158-220 of fetchProfessorFromRmp: null when the request fails, the
\* response is not ok or an exception is caught; else the best candidate.
fetchProfessorFromRmp(ok, edges, name) == IF ok THEN bestCandidate(edges, name) ELSE <<>>

\* Lines 83-93 of findInDatabase: the rows whose searchNames has the
\* normalized name
rowsFor(rows, name) ==
    {i \in 1..Len(rows) : InList(normalizeName(name), rows[i].searchNames)}

\* Lines 106-121 and 135-152: the columns taken from the node
\* (oldRmpId is what rmpId becomes when the node has no legacyId)
rowOf(id, node, oldRmpId, time) ==
    LET name == buildFullName(node)
    IN  [id |-> id,
         rmpId |-> IF node.legacyId # "" THEN node.legacyId ELSE oldRmpId,
         fullName |-> name,
         numRatings |-> node.numRatings,
         searchNames |-> generateSearchNames(name),
         lastCheckedAt |-> time]

\* Lines 109-121: the row prisma.professor.create stores (lastCheckedAt
\* defaults to the current time)
createdRow(rows, node, time) == rowOf(Len(rows) + 1, node, Null, time)

\* Lines 137-152: the row prisma.professor.update leaves
updatedRow(existing, node, time) == rowOf(existing.id, node, existing.rmpId, time)

\* markChecked writing the rating count as well
checkedRow_RatingsReset(existing, time) ==
    [existing EXCEPT !.lastCheckedAt = time, !.numRatings = 0]

\* Lines 230-235 of markChecked: only lastCheckedAt is set
checkedRow(existing, time) == [existing EXCEPT !.lastCheckedAt = time]

\* Lines 231-234: prisma.professor.update sets lastCheckedAt of the row of
\* that id
markedTable(rows, id, time) ==
    [i \in 1..Len(rows) |->
        IF rows[i].id = id THEN [rows[i] EXCEPT !.lastCheckedAt = time] ELSE rows[i]]

\* The table with the row of that id replaced
withRow(rows, row) == [i \in 1..Len(rows) |-> IF rows[i].id = row.id THEN row ELSE rows[i]]

---------------------------------------------------------------------------
(* The normalizeName harness: a raw name is normalized, and then either    *)
(* normalized a second time or normalized again with a title in front.     *)

NamePieces ==
    {"dr", "mrs", "professor", "Dr", "m", "s", ".", " ", "  ", "-", "2", "jane", "drew"}

RECURSIVE PiecesUpTo(_)
PiecesUpTo(n) ==
    IF n = 0 THEN {""}
    ELSE LET shorter == PiecesUpTo(n - 1)
         IN  shorter \cup {p \o q : p \in shorter, q \in NamePieces}

RawNames == PiecesUpTo(MaxPieces)

\* The titles of the claim, with and without a period, in several letter cases.
TitleForms ==
    {"dr", "prof", "professor", "mr", "ms", "mrs", "dr.", "Prof.", "MRS", "Ms."}

\* The isNameMatch harness and the RateMyProfAPI instance when not in use.
IMIdle ==
    /\ im_pc = "idle"
    /\ teacherName = ""
    /\ searchName = ""
    /\ returnLine = 0
    /\ matchResult = FALSE
    /\ actualMatches = 0
    /\ hasFirstNameMatch = FALSE

NoResult == [kind |-> "none", name |-> "", id |-> ""]

\* A RateMyProfAPI instance after its constructor, no call made.
SPConstructed ==
    /\ professorIndex = EmptyIndex
    /\ indexBuilt = FALSE
    /\ sp_pc = "idle"
    /\ sp_name = ""
    /\ professors = <<>>
    /\ candidateProfs = <<>>
    /\ matchingProf = NullProf
    /\ sp_result = NoResult

NNIdle ==
    /\ nn_pc = "idle"
    /\ nn_input = ""
    /\ nn_output = ""
    /\ nn_again = ""
    /\ nn_title = ""
    /\ nn_titled = ""

\* The generateSearchNames harness when not in use.
GSNIdle ==
    /\ gsn_pc = "idle"
    /\ fullName = ""
    /\ variations = <<>>

\* No getMultipleProfessors call made, no roster fetched yet.
MPIdle ==
    /\ mp_pc = "idle"
    /\ professorNames = <<>>
    /\ mp_i = 0
    /\ results = <<>>
    /\ fetchCount = 0
    /\ buildCount = 0
    /\ builtRoster = <<>>
    /\ replacedRoster = <<>>

\* No call made before: the summary of "the call before" is empty.
NoCall == [name |-> "", at |-> 0, notFound |-> FALSE, stored |-> FALSE]

\* A ProfessorService with an empty Professor table, no call made.
PSIdle ==
    /\ db = <<>>
    /\ now = 0
    /\ callCount = 0
    /\ ps_pc = "idle"
    /\ ps_name = ""
    /\ ps_at = 0
    /\ ps_cached = <<>>
    /\ ps_requested = FALSE
    /\ ps_node = <<>>
    /\ ps_result = <<>>
    /\ ps_prev = NoCall

\* No fetchProfessorFromRmp call of the harness made.
RFIdle ==
    /\ rf_pc = "idle"
    /\ rf_name = ""
    /\ rf_ok = FALSE
    /\ rf_edges = <<>>
    /\ rf_node = <<>>

\* No pass of the token loop of the harness made.
TKIdle ==
    /\ tk_pc = "idle"
    /\ tk_sPart = ""
    /\ tk_tPart = ""
    /\ tk_found = FALSE
    /\ tk_line = 0

\* The concurrent getProfessorData calls
Calls == 1..MaxConcurrent

\* No concurrent call made.
CCIdle ==
    /\ cc_pc = [c \in Calls |-> "idle"]
    /\ cc_name = [c \in Calls |-> ""]
    /\ cc_cached = [c \in Calls |-> <<>>]
    /\ cc_node = [c \in Calls |-> <<>>]
    /\ cc_result = [c \in Calls |-> <<>>]
    /\ cc_db0 = <<>>
    /\ createCount = 0

\* The concurrent searchProfessor calls
Searches == 1..MaxSearches

\* No concurrent searchProfessor call made.
CSIdle ==
    /\ cs_pc = [c \in Searches |-> "idle"]
    /\ cs_name = [c \in Searches |-> ""]
    /\ cs_fetch = [c \in Searches |-> "none"]
    /\ cs_roster = [c \in Searches |-> <<>>]
    /\ cs_unavailable = [c \in Searches |-> FALSE]
    /\ cs_selected = [c \in Searches |-> NullProf]
    /\ cs_result = [c \in Searches |-> NoResult]
    /\ cs_built = <<>>

MoreIdle == RFIdle /\ TKIdle /\ CCIdle /\ CSIdle

ExtIdle == GSNIdle /\ MPIdle /\ PSIdle /\ MoreIdle

NNInit ==
    /\ nn_pc = "ready"
    /\ nn_input \in RawNames
    /\ nn_output = ""
    /\ nn_again = ""
    /\ nn_title = ""
    /\ nn_titled = ""
    /\ IMIdle
    /\ SPConstructed
    /\ ExtIdle

Normalize ==
    /\ nn_pc = "ready"
    /\ nn_output' = normalizeName(nn_input)
    /\ nn_pc' = "normalized"
    /\ UNCHANGED <<nn_input, nn_again, nn_title, nn_titled, im_vars, sp_vars, ext_vars>>

NormalizeAgain ==
    /\ nn_pc = "normalized"
    /\ nn_again' = normalizeName(nn_output)
    /\ nn_pc' = "renormalized"
    /\ UNCHANGED <<nn_input, nn_output, nn_title, nn_titled, im_vars, sp_vars, ext_vars>>

NormalizeTitled ==
    /\ nn_pc = "normalized"
    /\ \E title \in TitleForms :
          /\ nn_title' = title
          /\ nn_titled' = normalizeName(title \o " " \o nn_input)
    /\ nn_pc' = "titled"
    /\ UNCHANGED <<nn_input, nn_output, nn_again, im_vars, sp_vars, ext_vars>>

NNNext == Normalize \/ NormalizeAgain \/ NormalizeTitled

SpecNormalize == NNInit /\ [][NNNext]_vars

---------------------------------------------------------------------------
(* The isNameMatch harness: one call on a candidate name and a query.      *)

GivenNames == {"Amy", "Mike", "Michael", "M", "John", "Jo", "Al"}

Surnames == {"Chen", "Cheng", "Smith", "Sadeghi", "Rafsanjani-Sadeghi", "Li-Sadeghi", "Jones"}

MatchNames ==
    Surnames
    \cup {g \o " " \o l : g \in GivenNames, l \in Surnames}
    \cup {"John Adam Smith", "John Adam Jones", "Amy Lee Chen", "Dr. Amy Chen",
          "Dr. Smith", "Prof. Smith", "Dr."}

IMInit ==
    /\ im_pc = "call"
    /\ teacherName \in MatchNames
    /\ searchName \in MatchNames
    /\ returnLine = 0
    /\ matchResult = FALSE
    /\ actualMatches = 0
    /\ hasFirstNameMatch = FALSE
    /\ NNIdle
    /\ SPConstructed
    /\ ExtIdle

IsNameMatchReturns ==
    /\ im_pc = "call"
    /\ LET r == isNameMatchCall(teacherName, searchName)
       IN  /\ returnLine' = r.line
           /\ matchResult' = r.result
           /\ actualMatches' = r.actualMatches
           /\ hasFirstNameMatch' = r.hasFirstNameMatch
    /\ im_pc' = "returned"
    /\ UNCHANGED <<teacherName, searchName, nn_vars, sp_vars, ext_vars>>

IMNext == IsNameMatchReturns

SpecMatch == IMInit /\ [][IMNext]_vars

---------------------------------------------------------------------------
(* The generateSearchNames harness: one call on a full name.               *)

FirstNames == {"Mohammad", "Amy", "Jo", "Al", "Mike", "M"}

SurnameParts == {"Rafsanjani", "Sadeghi", "Li", "Chen", "O"}

\* "First A-B", "First A B", "First B" and the names of the matcher harness.
FullNames ==
    {f \o " " \o a \o "-" \o b : f \in FirstNames, a \in SurnameParts, b \in SurnameParts}
    \cup {f \o " " \o a \o " " \o b : f \in FirstNames, a \in SurnameParts, b \in SurnameParts}
    \cup {f \o " " \o b : f \in FirstNames, b \in SurnameParts}
    \cup MatchNames

GSNInit ==
    /\ gsn_pc = "call"
    /\ fullName \in FullNames
    /\ variations = <<>>
    /\ NNIdle
    /\ IMIdle
    /\ SPConstructed
    /\ MPIdle
    /\ PSIdle
    /\ MoreIdle

GenerateSearchNamesReturns ==
    /\ gsn_pc = "call"
    /\ variations' = generateSearchNames(fullName)
    /\ gsn_pc' = "returned"
    /\ UNCHANGED <<fullName, nn_vars, im_vars, sp_vars, mp_vars, ps_vars, more_vars>>

GSNNext == GenerateSearchNamesReturns

SpecSearchNames == GSNInit /\ [][GSNNext]_vars

---------------------------------------------------------------------------
(* One searchProfessor call on a fresh RateMyProfAPI instance. The call    *)
(* awaits the roster (getProfessorList), looks the name up, and awaits the *)
(* details of the professor it selected.                                   *)

\* Professors the roster fetch may return (name, num_ratings).
RosterEntries ==
    { [name |-> "Amy Chen", num_ratings |-> 12],
      [name |-> "Amy Wong", num_ratings |-> 0],
      [name |-> "Amy X", num_ratings |-> 4],
      [name |-> "Amy Lee Chen", num_ratings |-> 7],
      [name |-> "Cheng", num_ratings |-> 4],
      [name |-> "Mohammad Rafsanjani-Sadeghi", num_ratings |-> 20],
      [name |-> "Al Li-Sadeghi", num_ratings |-> 5],
      [name |-> "Mike Smith", num_ratings |-> 9],
      [name |-> "Michael Smith", num_ratings |-> 8],
      [name |-> "Billy Smith", num_ratings |-> 1],
      [name |-> "John Adam Jones", num_ratings |-> 2],
      [name |-> "Smith", num_ratings |-> 6],
      [name |-> "", num_ratings |-> 3] }

\* A fetched roster: each professor is an object of its own (id).
Rosters ==
    { [i \in 1..Len(r) |-> [id |-> i, name |-> r[i].name, num_ratings |-> r[i].num_ratings]] :
        r \in UNION {[1..k -> RosterEntries] : k \in 0..MaxRoster} }

QueryNames ==
    {"Amy Chen", "Chen", "Sadeghi", "M Sadeghi", "Michael Smith", "John Adam Smith",
     "Smith", "Dr. Amy Wong", "", "Mike Smith", "William Smith", "A Chen", "A X", "Dr."}

SPInit == SPConstructed /\ NNIdle /\ IMIdle /\ ExtIdle

\* searchProfessor(name) is called and awaits getProfessorList().
SearchProfessor ==
    /\ sp_pc = "idle"
    /\ \E name \in QueryNames : sp_name' = name
    /\ sp_pc' = "fetching"
    /\ UNCHANGED <<professorIndex, indexBuilt, professors, candidateProfs, matchingProf,
                   sp_result, nn_vars, im_vars, ext_vars>>

\* get_professor_list() resolves: getProfessorList builds the index.
ProfessorListResolves ==
    /\ sp_pc = "fetching"
    /\ \E roster \in Rosters :
          /\ professors' = roster
          /\ professorIndex' = buildProfessorIndex(roster)
    /\ indexBuilt' = TRUE
    /\ sp_pc' = "fetched"
    /\ UNCHANGED <<sp_name, candidateProfs, matchingProf, sp_result, nn_vars, im_vars, ext_vars>>

\* get_professor_list() rejects: the catch block of getProfessorList.
ProfessorListRejects ==
    /\ sp_pc = "fetching"
    /\ indexBuilt' = FALSE
    /\ professors' = <<>>
    /\ sp_pc' = "fetched"
    /\ UNCHANGED <<professorIndex, sp_name, candidateProfs, matchingProf, sp_result,
                   nn_vars, im_vars, ext_vars>>

\* Lines 334-372 of searchProfessor, after the await of getProfessorList.
LookupAndMatch ==
    /\ sp_pc = "fetched"
    /\ IF ~indexBuilt
       THEN /\ sp_result' = [kind |-> "null", name |-> "", id |-> ""]
            /\ sp_pc' = "done"
            /\ UNCHANGED <<candidateProfs, matchingProf>>
       ELSE LET found == CollectCandidates(professorIndex, generateSearchKeys(sp_name), <<>>)
                selected == FirstMatch(found, sp_name)
            IN  /\ candidateProfs' = found
                /\ matchingProf' = selected
                /\ IF selected = NullProf \/ selected.num_ratings = 0
                   THEN /\ sp_result' = [kind |-> "null", name |-> "", id |-> ""]
                        /\ sp_pc' = "done"
                   ELSE /\ sp_pc' = "detail"
                        /\ UNCHANGED sp_result
    /\ UNCHANGED <<professorIndex, indexBuilt, sp_name, professors, nn_vars, im_vars, ext_vars>>

\* get_professor_info() resolves: the result carries the professor's id.
ProfessorInfoResolves ==
    /\ sp_pc = "detail"
    /\ sp_result' = [kind |-> "data", name |-> matchingProf.name, id |-> "rmp-id"]
    /\ sp_pc' = "done"
    /\ UNCHANGED <<professorIndex, indexBuilt, sp_name, professors, candidateProfs,
                   matchingProf, nn_vars, im_vars, ext_vars>>

\* get_professor_info() rejects: the inner catch, the result has no id.
ProfessorInfoRejects ==
    /\ sp_pc = "detail"
    /\ sp_result' = [kind |-> "data", name |-> matchingProf.name, id |-> ""]
    /\ sp_pc' = "done"
    /\ UNCHANGED <<professorIndex, indexBuilt, sp_name, professors, candidateProfs,
                   matchingProf, nn_vars, im_vars, ext_vars>>

Next ==
    \/ SearchProfessor
    \/ ProfessorListResolves
    \/ ProfessorListRejects
    \/ LookupAndMatch
    \/ ProfessorInfoResolves
    \/ ProfessorInfoRejects

Spec == SPInit /\ [][Next]_vars

---------------------------------------------------------------------------
(* One getMultipleProfessors call on a fresh RateMyProfAPI instance: it    *)
(* awaits getProfessorList, then awaits searchProfessor for every name in  *)
(* turn; each searchProfessor awaits getProfessorList again.               *)

\* The rosters a fetch may return (name, num_ratings).
BatchRosters ==
    { <<>>,
      <<[name |-> "Amy Chen", num_ratings |-> 12]>>,
      <<[name |-> "Mike Smith", num_ratings |-> 0], [name |-> "Smith", num_ratings |-> 6]>>,
      <<[name |-> "Smith", num_ratings |-> 6], [name |-> "Amy Lee Chen", num_ratings |-> 7]>> }

BatchQueryNames == {"Amy Chen", "Smith"}

\* The argument professorNames
NameLists == UNION {[1..k -> BatchQueryNames] : k \in 0..MaxNames}

\* The roster the n-th fetch returns: every fetch creates its professor
\* objects anew (the id tells the objects of two fetches apart).
FetchedRosters(n) ==
    { [i \in 1..Len(r) |->
          [id |-> 10 * n + i, name |-> r[i].name, num_ratings |-> r[i].num_ratings]] :
        r \in BatchRosters }

MPInit == SPConstructed /\ NNIdle /\ IMIdle /\ GSNIdle /\ MPIdle /\ PSIdle /\ MoreIdle

\* Lines 416-421: getMultipleProfessors(professorNames) is called and awaits
\* getProfessorList().
GetMultipleProfessors ==
    /\ mp_pc = "idle"
    /\ \E names \in NameLists : professorNames' = names
    /\ mp_i' = 1
    /\ mp_pc' = "prefetch"
    /\ UNCHANGED <<results, fetchCount, buildCount, builtRoster, replacedRoster,
                   nn_vars, im_vars, sp_vars, gsn_vars, ps_vars,
                   more_vars>>

\* Lines 304-315 of getProfessorList, awaited at line 421 or line 332:
\* get_professor_list() resolves and the index is rebuilt.
BatchListResolves ==
    /\ mp_pc \in {"prefetch", "searchfetch"}
    /\ \E roster \in FetchedRosters(fetchCount + 1) :
          /\ professors' = roster
          /\ professorIndex' = rebuildProfessorIndex(professorIndex, roster)
          /\ builtRoster' = roster
    /\ replacedRoster' = builtRoster
    /\ indexBuilt' = TRUE
    /\ fetchCount' = fetchCount + 1
    /\ buildCount' = buildCount + 1
    /\ mp_pc' = IF mp_pc = "prefetch" THEN "loop" ELSE "lookup"
    /\ UNCHANGED <<professorNames, mp_i, results, sp_pc, sp_name, candidateProfs,
                   matchingProf, sp_result, nn_vars, im_vars, gsn_vars, ps_vars,
                   more_vars>>

\* Lines 316-321 of getProfessorList: get_professor_list() rejects.
BatchListRejects ==
    /\ mp_pc \in {"prefetch", "searchfetch"}
    /\ professors' = <<>>
    /\ indexBuilt' = FALSE
    /\ fetchCount' = fetchCount + 1
    /\ mp_pc' = IF mp_pc = "prefetch" THEN "loop" ELSE "lookup"
    /\ UNCHANGED <<professorNames, mp_i, results, buildCount, builtRoster, replacedRoster,
                   professorIndex, sp_pc, sp_name, candidateProfs, matchingProf, sp_result,
                   nn_vars, im_vars, gsn_vars, ps_vars,
                   more_vars>>

\* Lines 425-426 and 435-438: the loop calls searchProfessor(name), which
\* awaits getProfessorList() (line 332); after the last name the call returns.
BatchNextName ==
    /\ mp_pc = "loop"
    /\ IF mp_i > Len(professorNames)
       THEN /\ mp_pc' = "done"
            /\ UNCHANGED sp_name
       ELSE /\ sp_name' = professorNames[mp_i]
            /\ mp_pc' = "searchfetch"
    /\ UNCHANGED <<professorNames, mp_i, results, fetchCount, buildCount, builtRoster,
                   replacedRoster, professorIndex, indexBuilt, sp_pc, professors,
                   candidateProfs, matchingProf, sp_result, nn_vars, im_vars, gsn_vars, ps_vars,
                   more_vars>>

\* Lines 427-432: the result of searchProfessor is pushed; the loop delays
\* when there is more than one name.
Pushed(data) == Append(results, [name |-> professorNames[mp_i], data |-> data])

AfterPush == IF Len(professorNames) > 1 THEN "delay" ELSE "loop"

\* Lines 334-372 of searchProfessor inside the loop.
BatchLookup ==
    /\ mp_pc = "lookup"
    /\ IF ~indexBuilt
       THEN /\ sp_result' = [kind |-> "null", name |-> "", id |-> ""]
            /\ results' = Pushed([kind |-> "null", name |-> "", id |-> ""])
            /\ mp_i' = mp_i + 1
            /\ mp_pc' = AfterPush
            /\ UNCHANGED <<candidateProfs, matchingProf>>
       ELSE LET found == CollectCandidates(professorIndex, generateSearchKeys(sp_name), <<>>)
                selected == FirstMatch(found, sp_name)
            IN  /\ candidateProfs' = found
                /\ matchingProf' = selected
                /\ IF selected = NullProf \/ selected.num_ratings = 0
                   THEN /\ sp_result' = [kind |-> "null", name |-> "", id |-> ""]
                        /\ results' = Pushed([kind |-> "null", name |-> "", id |-> ""])
                        /\ mp_i' = mp_i + 1
                        /\ mp_pc' = AfterPush
                   ELSE /\ mp_pc' = "detail"
                        /\ UNCHANGED <<sp_result, results, mp_i>>
    /\ UNCHANGED <<professorNames, fetchCount, buildCount, builtRoster, replacedRoster,
                   professorIndex, indexBuilt, sp_pc, sp_name, professors,
                   nn_vars, im_vars, gsn_vars, ps_vars,
                   more_vars>>

\* Lines 379-409: get_professor_info() resolves or rejects; searchProfessor
\* returns the data and the loop pushes it.
BatchInfoSettles ==
    /\ mp_pc = "detail"
    /\ \E id \in {"rmp-id", ""} :
          /\ sp_result' = [kind |-> "data", name |-> matchingProf.name, id |-> id]
          /\ results' = Pushed([kind |-> "data", name |-> matchingProf.name, id |-> id])
    /\ mp_i' = mp_i + 1
    /\ mp_pc' = AfterPush
    /\ UNCHANGED <<professorNames, fetchCount, buildCount, builtRoster, replacedRoster,
                   professorIndex, indexBuilt, sp_pc, sp_name, professors, candidateProfs,
                   matchingProf, nn_vars, im_vars, gsn_vars, ps_vars,
                   more_vars>>

\* Line 431: the delay(200) timer fires.
BatchDelayElapses ==
    /\ mp_pc = "delay"
    /\ mp_pc' = "loop"
    /\ UNCHANGED <<professorNames, mp_i, results, fetchCount, buildCount, builtRoster,
                   replacedRoster, sp_vars, nn_vars, im_vars, gsn_vars, ps_vars,
                   more_vars>>

MPNext ==
    \/ GetMultipleProfessors
    \/ BatchListResolves
    \/ BatchListRejects
    \/ BatchNextName
    \/ BatchLookup
    \/ BatchInfoSettles
    \/ BatchDelayElapses

SpecBatch == MPInit /\ [][MPNext]_vars

---------------------------------------------------------------------------
(* Calls of ProfessorService.getProfessorData, one after the other, with   *)
(* the clock advancing between them. A call awaits findInDatabase and, on  *)
(* a miss or a stale row, the RateMyProfessors request.                    *)

\* The instants at which something happens: just after the start, and
\* around 30 days later.
StaleTicks == PROFESSOR_DATA_STALE_DAYS * TicksPerDay

Instants ==
    {0, 1, StaleTicks - 1, StaleTicks, StaleTicks + 1, StaleTicks + TicksPerDay,
     StaleTicks + TicksPerDay + 1}

\* Teacher nodes RateMyProfessors may return
RmpAmyChen == [legacyId |-> "101", firstName |-> "Amy", lastName |-> "Chen", numRatings |-> 12]

RmpAmyLeeChen ==
    [legacyId |-> "102", firstName |-> "Amy Lee", lastName |-> "Chen", numRatings |-> 30]

RmpBoWong == [legacyId |-> "", firstName |-> "Bo", lastName |-> "Wong", numRatings |-> 3]

\* The edges of a response
EdgeLists == {<<>>, <<RmpAmyChen>>, <<RmpAmyLeeChen, RmpAmyChen>>, <<RmpBoWong>>}

ServiceNames == {"Amy Chen", "Dr. Amy L. Chen", "Bo Wong"}

PSInit == PSIdle /\ NNIdle /\ IMIdle /\ SPConstructed /\ GSNIdle /\ MPIdle /\ MoreIdle

\* Time passes while no call is in progress.
AdvanceClock ==
    /\ ps_pc = "idle"
    /\ \E later \in Instants : later > now /\ now' = later
    /\ UNCHANGED <<db, callCount, ps_pc, ps_name, ps_at, ps_cached, ps_requested, ps_node,
                   ps_result, ps_prev, nn_vars, im_vars, sp_vars, gsn_vars, mp_vars,
                   more_vars>>

\* Lines 60-61: getProfessorData(name) is called and awaits findInDatabase.
GetProfessorData ==
    /\ ps_pc = "idle"
    /\ callCount < MaxCalls
    /\ \E name \in ServiceNames : ps_name' = name
    /\ ps_prev' = IF callCount = 0 THEN NoCall
                  ELSE [name |-> ps_name, at |-> ps_at,
                        notFound |-> ps_cached = <<>> /\ ps_node = <<>>,
                        stored |-> ps_cached = <<>> /\ ps_node # <<>>]
    /\ callCount' = callCount + 1
    /\ ps_at' = now
    /\ ps_cached' = <<>>
    /\ ps_requested' = FALSE
    /\ ps_node' = <<>>
    /\ ps_result' = <<>>
    /\ ps_pc' = "find"
    /\ UNCHANGED <<db, now, nn_vars, im_vars, sp_vars, gsn_vars, mp_vars,
                   more_vars>>

\* Lines 63-65 and 99: no row was found; fetchAndStoreProfessor sends the
\* request to RateMyProfessors.
FindMisses ==
    /\ ps_pc = "find"
    /\ rowsFor(db, ps_name) = {}
    /\ ps_cached' = <<>>
    /\ ps_requested' = TRUE
    /\ ps_pc' = "fetch"
    /\ UNCHANGED <<db, now, callCount, ps_name, ps_at, ps_node, ps_result, ps_prev,
                   nn_vars, im_vars, sp_vars, gsn_vars, mp_vars,
                   more_vars>>

\* Lines 68-77 and 128: findFirst returned a row; a stale row is refreshed
\* (the request is sent), any other row is returned as it is.
FindHits ==
    /\ ps_pc = "find"
    /\ \E i \in rowsFor(db, ps_name) :
          /\ ps_cached' = <<db[i]>>
          /\ IF daysSinceCheck(now, db[i].lastCheckedAt) > PROFESSOR_DATA_STALE_DAYS
             THEN /\ ps_requested' = TRUE
                  /\ ps_pc' = "refresh"
                  /\ UNCHANGED ps_result
             ELSE /\ ps_result' = <<db[i]>>
                  /\ ps_pc' = "idle"
                  /\ UNCHANGED ps_requested
    /\ UNCHANGED <<db, now, callCount, ps_name, ps_at, ps_node, ps_prev,
                   nn_vars, im_vars, sp_vars, gsn_vars, mp_vars,
                   more_vars>>

\* Lines 101-121 of fetchAndStoreProfessor with the node the request gave:
\* null is returned as null, a node is stored as a new row.
Stored(node) ==
    IF node = <<>>
    THEN ps_result' = <<>> /\ UNCHANGED db
    ELSE /\ db' = Append(db, createdRow(db, node[1], now))
         /\ ps_result' = <<db'[Len(db')]>>

\* Lines 130-152 of refreshProfessor and lines 73-74 with the node the
\* request gave: null only marks the row checked and the row read before is
\* returned; a node updates the row.
Refreshed(node) ==
    IF node = <<>>
    THEN /\ db' = withRow(db, checkedRow(ps_cached[1], now))
         /\ ps_result' = ps_cached
    ELSE /\ db' = withRow(db, updatedRow(ps_cached[1], node[1], now))
         /\ ps_result' = <<updatedRow(ps_cached[1], node[1], now)>>

\* fetchProfessorFromRmp returns node to fetchAndStoreProfessor or to
\* refreshProfessor.
Settled(node) ==
    /\ ps_node' = node
    /\ IF ps_pc = "fetch" THEN Stored(node) ELSE Refreshed(node)

\* The request to RateMyProfessors settles: it was made with the name of
\* the call (line 99) or, in a refresh, with the stored fullName (line 128).
RmpSettles ==
    /\ ps_pc \in {"fetch", "refresh"}
    /\ \E ok \in BOOLEAN, edges \in EdgeLists :
          Settled(fetchProfessorFromRmp(ok, edges,
                      IF ps_pc = "fetch" THEN ps_name ELSE ps_cached[1].fullName))
    /\ ps_pc' = "idle"
    /\ UNCHANGED <<now, callCount, ps_name, ps_at, ps_cached, ps_requested, ps_prev,
                   nn_vars, im_vars, sp_vars, gsn_vars, mp_vars,
                   more_vars>>

PSNext ==
    \/ AdvanceClock
    \/ GetProfessorData
    \/ FindMisses
    \/ FindHits
    \/ RmpSettles

SpecService == PSInit /\ [][PSNext]_vars

---------------------------------------------------------------------------
(* One call of ProfessorService.fetchProfessorFromRmp: the request settles *)
(* with a response (ok or not) carrying a list of edges, and the best      *)
(* candidate or null is returned.                                          *)

RmpBoChen == [legacyId |-> "104", firstName |-> "Bo", lastName |-> "Chen", numRatings |-> 50]

RmpAmyChenTwin ==
    [legacyId |-> "103", firstName |-> "Amy", lastName |-> "Chen", numRatings |-> 12]

RmpNameless == [legacyId |-> "105", firstName |-> "", lastName |-> "", numRatings |-> 40]

FetchNodes == {RmpAmyChen, RmpAmyLeeChen, RmpBoWong, RmpBoChen, RmpAmyChenTwin, RmpNameless}

FetchEdgeLists == UNION {[1..k -> FetchNodes] : k \in 0..MaxEdges}

FetchNames == {"Amy Chen", "Dr. Amy L. Chen", "Chen", "Bo Wong", ""}

RFInit ==
    /\ rf_pc = "call"
    /\ rf_name \in FetchNames
    /\ rf_ok \in BOOLEAN
    /\ rf_edges \in FetchEdgeLists
    /\ rf_node = <<>>
    /\ NNIdle
    /\ IMIdle
    /\ SPConstructed
    /\ GSNIdle
    /\ MPIdle
    /\ PSIdle
    /\ TKIdle
    /\ CCIdle
    /\ CSIdle

\* Lines 158-220
FetchProfessorFromRmpReturns ==
    /\ rf_pc = "call"
    /\ rf_node' = fetchProfessorFromRmp(rf_ok, rf_edges, rf_name)
    /\ rf_pc' = "returned"
    /\ UNCHANGED <<rf_name, rf_ok, rf_edges, nn_vars, im_vars, sp_vars, gsn_vars, mp_vars,
                   ps_vars, tk_vars, cc_vars, cs_vars>>

RFNext == FetchProfessorFromRmpReturns

SpecFetch == RFInit /\ [][RFNext]_vars

---------------------------------------------------------------------------
(* One pass of the inner loop of isNameMatch: a query token against a      *)
(* candidate token.                                                        *)

Tokens ==
    {"a", "al", "ali", "alice", "ben", "beni", "benito", "benjamin", "jess", "jessie",
     "li-sadeghi", "sadeghi", "sad", "li"}

TKInit ==
    /\ tk_pc = "call"
    /\ tk_sPart \in Tokens
    /\ tk_tPart \in Tokens
    /\ tk_found = FALSE
    /\ tk_line = 0
    /\ NNIdle
    /\ IMIdle
    /\ SPConstructed
    /\ GSNIdle
    /\ MPIdle
    /\ PSIdle
    /\ RFIdle
    /\ CCIdle
    /\ CSIdle

\* Lines 158-213
TokenLoopPass ==
    /\ tk_pc = "call"
    /\ tk_found' = TokenCorresponds(tk_sPart, tk_tPart)
    /\ tk_line' = foundMatchLine(tk_sPart, tk_tPart)
    /\ tk_pc' = "returned"
    /\ UNCHANGED <<tk_sPart, tk_tPart, nn_vars, im_vars, sp_vars, gsn_vars, mp_vars, ps_vars,
                   rf_vars, cc_vars, cs_vars>>

TKNext == TokenLoopPass

SpecToken == TKInit /\ [][TKNext]_vars

---------------------------------------------------------------------------
(* Concurrent calls of ProfessorService.getProfessorData on the one        *)
(* professorService (line 279), as concurrent requests make them. A call   *)
(* gives way to the others at its awaits: the findFirst query, the request *)
(* to RateMyProfessors and the create or update statement each settle at a *)
(* moment of their own. The clock stands still meanwhile.                  *)

\* The instant of the calls: a row last checked at 0 is 31 days old.
CCNow == StaleTicks + TicksPerDay

\* The Professor table before the calls: empty, or one row for Amy Chen,
\* just checked or last checked 31 days ago.
StartTables ==
    {<<>>, <<createdRow(<<>>, RmpAmyChen, CCNow)>>, <<createdRow(<<>>, RmpAmyChen, 0)>>}

CCNames == {"Amy Chen", "Bo Wong"}

CCEdgeLists == {<<>>, <<RmpAmyChen>>, <<RmpBoWong>>}

CCInit ==
    /\ db \in StartTables
    /\ cc_db0 = db
    /\ now = CCNow
    /\ callCount = 0
    /\ ps_pc = "idle"
    /\ ps_name = ""
    /\ ps_at = 0
    /\ ps_cached = <<>>
    /\ ps_requested = FALSE
    /\ ps_node = <<>>
    /\ ps_result = <<>>
    /\ ps_prev = NoCall
    /\ cc_pc = [c \in Calls |-> "idle"]
    /\ cc_name = [c \in Calls |-> ""]
    /\ cc_cached = [c \in Calls |-> <<>>]
    /\ cc_node = [c \in Calls |-> <<>>]
    /\ cc_result = [c \in Calls |-> <<>>]
    /\ createCount = 0
    /\ NNIdle
    /\ IMIdle
    /\ SPConstructed
    /\ GSNIdle
    /\ MPIdle
    /\ RFIdle
    /\ TKIdle
    /\ CSIdle

\* What the concurrent calls leave alone
CCFrame ==
    UNCHANGED <<now, callCount, ps_pc, ps_name, ps_at, ps_cached, ps_requested, ps_node,
                ps_result, ps_prev, cc_db0, nn_vars, im_vars, sp_vars, gsn_vars, mp_vars,
                rf_vars, tk_vars, cs_vars>>

\* Lines 60-61: call c of getProfessorData(name) starts and awaits
\* findInDatabase.
ConcurrentCall(c) ==
    /\ cc_pc[c] = "idle"
    /\ \E name \in CCNames : cc_name' = [cc_name EXCEPT ![c] = name]
    /\ cc_pc' = [cc_pc EXCEPT ![c] = "find"]
    /\ UNCHANGED <<db, cc_cached, cc_node, cc_result, createCount>>
    /\ CCFrame

\* Lines 61-66 and 99: the findFirst of call c settles with no row; the
\* call sends the request to RateMyProfessors.
ConcurrentFindMisses(c) ==
    /\ cc_pc[c] = "find"
    /\ rowsFor(db, cc_name[c]) = {}
    /\ cc_pc' = [cc_pc EXCEPT ![c] = "fetch"]
    /\ UNCHANGED <<db, cc_name, cc_cached, cc_node, cc_result, createCount>>
    /\ CCFrame

\* Lines 61-77 and 128: the findFirst of call c settles with a row; a stale
\* row is refreshed, any other row is returned.
ConcurrentFindHits(c) ==
    /\ cc_pc[c] = "find"
    /\ \E i \in rowsFor(db, cc_name[c]) :
          /\ cc_cached' = [cc_cached EXCEPT ![c] = <<db[i]>>]
          /\ IF daysSinceCheck(now, db[i].lastCheckedAt) > PROFESSOR_DATA_STALE_DAYS
             THEN /\ cc_pc' = [cc_pc EXCEPT ![c] = "refresh"]
                  /\ UNCHANGED cc_result
             ELSE /\ cc_pc' = [cc_pc EXCEPT ![c] = "done"]
                  /\ cc_result' = [cc_result EXCEPT ![c] = <<db[i]>>]
    /\ UNCHANGED <<db, cc_name, cc_node, createCount>>
    /\ CCFrame

\* The pc of call c after fetchProfessorFromRmp returned node: lines 101-109
\* in fetchAndStoreProfessor, lines 130-137 in refreshProfessor.
AfterRmp(c, node) ==
    IF cc_pc[c] = "fetch"
    THEN (IF node = <<>> THEN "done" ELSE "create")
    ELSE (IF node = <<>> THEN "mark" ELSE "update")

\* fetchProfessorFromRmp returns node to call c.
ConcurrentSettled(c, node) ==
    /\ cc_node' = [cc_node EXCEPT ![c] = node]
    /\ cc_pc' = [cc_pc EXCEPT ![c] = AfterRmp(c, node)]

\* Lines 158-220: the request of call c to RateMyProfessors settles.
ConcurrentRmpSettles(c) ==
    /\ cc_pc[c] \in {"fetch", "refresh"}
    /\ \E ok \in BOOLEAN, edges \in CCEdgeLists :
          ConcurrentSettled(c, fetchProfessorFromRmp(ok, edges,
                IF cc_pc[c] = "fetch" THEN cc_name[c] ELSE cc_cached[c][1].fullName))
    /\ UNCHANGED <<db, cc_name, cc_cached, cc_result, createCount>>
    /\ CCFrame

\* Lines 109-121: the prisma.professor.create of call c settles.
ConcurrentCreateSettles(c) ==
    /\ cc_pc[c] = "create"
    /\ db' = Append(db, createdRow(db, cc_node[c][1], now))
    /\ createCount' = createCount + 1
    /\ cc_result' = [cc_result EXCEPT ![c] = <<db'[Len(db')]>>]
    /\ cc_pc' = [cc_pc EXCEPT ![c] = "done"]
    /\ UNCHANGED <<cc_name, cc_cached, cc_node>>
    /\ CCFrame

\* Lines 137-152: the prisma.professor.update of call c settles.
ConcurrentUpdateSettles(c) ==
    /\ cc_pc[c] = "update"
    /\ db' = withRow(db, updatedRow(cc_cached[c][1], cc_node[c][1], now))
    /\ cc_result' = [cc_result EXCEPT ![c] = <<updatedRow(cc_cached[c][1], cc_node[c][1], now)>>]
    /\ cc_pc' = [cc_pc EXCEPT ![c] = "done"]
    /\ UNCHANGED <<cc_name, cc_cached, cc_node, createCount>>
    /\ CCFrame

\* Lines 131-132, 230-235 and 74: the update of markChecked settles;
\* refreshProfessor returns null and the call returns the row it read.
ConcurrentMarkSettles(c) ==
    /\ cc_pc[c] = "mark"
    /\ db' = markedTable(db, cc_cached[c][1].id, now)
    /\ cc_result' = [cc_result EXCEPT ![c] = cc_cached[c]]
    /\ cc_pc' = [cc_pc EXCEPT ![c] = "done"]
    /\ UNCHANGED <<cc_name, cc_cached, cc_node, createCount>>
    /\ CCFrame

CCNext ==
    \E c \in Calls :
        \/ ConcurrentCall(c)
        \/ ConcurrentFindMisses(c)
        \/ ConcurrentFindHits(c)
        \/ ConcurrentRmpSettles(c)
        \/ ConcurrentCreateSettles(c)
        \/ ConcurrentUpdateSettles(c)
        \/ ConcurrentMarkSettles(c)

SpecConcurrent == CCInit /\ [][CCNext]_vars

---------------------------------------------------------------------------
(* Concurrent calls of searchProfessor on the one rateMyProfAPI (line      *)
(* 442), as concurrent requests make them. A call gives way to the others  *)
(* at its awaits: at line 332, where getProfessorList() itself awaits      *)
(* get_professor_list() (line 306) and builds the index or runs its catch  *)
(* block without a break, and at line 383 (get_professor_info()). The      *)
(* continuation of line 334 runs in a later turn than the return of        *)
(* getProfessorList.                                                       *)

SearchRosters ==
    { <<[name |-> "Amy Chen", num_ratings |-> 12], [name |-> "Smith", num_ratings |-> 6]>>,
      <<[name |-> "Smith", num_ratings |-> 6], [name |-> "Amy Lee Chen", num_ratings |-> 7]>> }

\* The roster the fetch of call c returns: every fetch creates its
\* professor objects anew (the id tells the objects of two fetches apart).
RostersOf(c) ==
    { [i \in 1..Len(r) |->
          [id |-> 10 * c + i, name |-> r[i].name, num_ratings |-> r[i].num_ratings]] :
        r \in SearchRosters }

SearchNames == {"Amy Chen"}

CSInit ==
    /\ SPConstructed
    /\ cs_pc = [c \in Searches |-> "idle"]
    /\ cs_name = [c \in Searches |-> ""]
    /\ cs_fetch = [c \in Searches |-> "none"]
    /\ cs_roster = [c \in Searches |-> <<>>]
    /\ cs_unavailable = [c \in Searches |-> FALSE]
    /\ cs_selected = [c \in Searches |-> NullProf]
    /\ cs_result = [c \in Searches |-> NoResult]
    /\ cs_built = <<>>
    /\ NNIdle
    /\ IMIdle
    /\ GSNIdle
    /\ MPIdle
    /\ PSIdle
    /\ RFIdle
    /\ TKIdle
    /\ CCIdle

\* What the concurrent searches leave alone
CSFrame ==
    UNCHANGED <<sp_pc, sp_name, professors, candidateProfs, matchingProf, sp_result,
                nn_vars, im_vars, gsn_vars, mp_vars, ps_vars, rf_vars, tk_vars, cc_vars>>

\* Lines 324-332: call c of searchProfessor(name) starts and awaits
\* getProfessorList(), which awaits get_professor_list().
ConcurrentSearch(c) ==
    /\ cs_pc[c] = "idle"
    /\ \E name \in SearchNames : cs_name' = [cs_name EXCEPT ![c] = name]
    /\ cs_pc' = [cs_pc EXCEPT ![c] = "fetching"]
    /\ UNCHANGED <<professorIndex, indexBuilt, cs_fetch, cs_roster, cs_unavailable,
                   cs_selected, cs_result, cs_built>>
    /\ CSFrame

\* Lines 306-315: the get_professor_list() of call c resolves and
\* getProfessorList rebuilds the index and returns.
SearchListResolves(c) ==
    /\ cs_pc[c] = "fetching"
    /\ \E roster \in RostersOf(c) :
          /\ professorIndex' = rebuildProfessorIndex(professorIndex, roster)
          /\ cs_roster' = [cs_roster EXCEPT ![c] = roster]
          /\ cs_built' = roster
    /\ indexBuilt' = TRUE
    /\ cs_fetch' = [cs_fetch EXCEPT ![c] = "ok"]
    /\ cs_pc' = [cs_pc EXCEPT ![c] = "fetched"]
    /\ UNCHANGED <<cs_name, cs_unavailable, cs_selected, cs_result>>
    /\ CSFrame

\* Lines 316-321: the get_professor_list() of call c rejects; the catch
\* block of getProfessorList.
SearchListRejects(c) ==
    /\ cs_pc[c] = "fetching"
    /\ indexBuilt' = FALSE
    /\ cs_fetch' = [cs_fetch EXCEPT ![c] = "failed"]
    /\ cs_pc' = [cs_pc EXCEPT ![c] = "fetched"]
    /\ UNCHANGED <<professorIndex, cs_name, cs_roster, cs_unavailable, cs_selected,
                   cs_result, cs_built>>
    /\ CSFrame

\* Lines 367-370 and 376: call c returns null when no professor with
\* ratings was selected, else goes on to get_professor_info().
Chosen(c, selected) ==
    /\ cs_selected' = [cs_selected EXCEPT ![c] = selected]
    /\ IF selected = NullProf \/ selected.num_ratings = 0
       THEN /\ cs_result' = [cs_result EXCEPT ![c] = [kind |-> "null", name |-> "", id |-> ""]]
            /\ cs_pc' = [cs_pc EXCEPT ![c] = "done"]
       ELSE /\ cs_pc' = [cs_pc EXCEPT ![c] = "detail"]
            /\ UNCHANGED cs_result

\* Lines 334-372: call c resumes after the await of getProfessorList().
SearchLookup(c) ==
    /\ cs_pc[c] = "fetched"
    /\ IF ~indexBuilt
       THEN /\ cs_unavailable' = [cs_unavailable EXCEPT ![c] = TRUE]
            /\ cs_result' = [cs_result EXCEPT ![c] = [kind |-> "null", name |-> "", id |-> ""]]
            /\ cs_pc' = [cs_pc EXCEPT ![c] = "done"]
            /\ UNCHANGED cs_selected
       ELSE /\ Chosen(c, FirstMatch(CollectCandidates(professorIndex,
                                        generateSearchKeys(cs_name[c]), <<>>), cs_name[c]))
            /\ UNCHANGED cs_unavailable
    /\ UNCHANGED <<professorIndex, indexBuilt, cs_name, cs_fetch, cs_roster, cs_built>>
    /\ CSFrame

\* Lines 379-409: the get_professor_info() of call c resolves or rejects
\* and the call returns the data.
SearchInfoSettles(c) ==
    /\ cs_pc[c] = "detail"
    /\ \E id \in {"rmp-id", ""} :
          cs_result' = [cs_result EXCEPT
                          ![c] = [kind |-> "data", name |-> cs_selected[c].name, id |-> id]]
    /\ cs_pc' = [cs_pc EXCEPT ![c] = "done"]
    /\ UNCHANGED <<professorIndex, indexBuilt, cs_name, cs_fetch, cs_roster, cs_unavailable,
                   cs_selected, cs_built>>
    /\ CSFrame

CSNext ==
    \E c \in Searches :
        \/ ConcurrentSearch(c)
        \/ SearchListRejects(c)
        \/ SearchListResolves(c)
        \/ SearchLookup(c)
        \/ SearchInfoSettles(c)

SpecSearches == CSInit /\ [][CSNext]_vars

---------------------------------------------------------------------------
(* Claims about normalizeName, checked under SpecNormalize *)

LastChar(s) == CharAt(s, Len(s))

\* C3: normalizeName is idempotent: normalizing the output of normalizeName
\* a second time gives that output again.
C3_Idempotent == nn_pc = "renormalized" => nn_again = nn_output

\* The maximal runs of word characters of s, left to right.
RECURSIVE WordRunsFrom(_, _)
WordRunsFrom(s, i) ==
    IF i > Len(s) THEN <<>>
    ELSE IF ~IsWordChar(CharAt(s, i)) THEN WordRunsFrom(s, i + 1)
    ELSE LET stops == {k \in i..Len(s) : ~IsWordChar(CharAt(s, k))}
             e == IF stops = {} THEN Len(s) + 1 ELSE Min(stops)
         IN  <<SubSeq(s, i, e - 1)>> \o WordRunsFrom(s, e)

WordRuns(s) == WordRunsFrom(s, 1)

TitleWords == {"dr", "prof", "professor", "mr", "ms", "mrs"}

\* C4: titles are removed only where they stand as whole words: every word
\* of the (lowercased) input that is not a title keeps all of its letters,
\* in order and together, in the output.
C4_NonTitleWordsKeepLetters ==
    nn_pc = "normalized" =>
        \A k \in 1..Len(WordRuns(toLowerCase(nn_input))) :
            LET w == WordRuns(toLowerCase(nn_input))[k]
            IN  w \notin TitleWords => includes(nn_output, KeepLettersAndSpaces(w))

\* C5: a title (any letter case, with or without a period) and a space put
\* in front of a name do not change what the name normalizes to; in
\* particular an input that is just a title normalizes to "".
C5_TitleStripped ==
    /\ nn_pc = "titled" => nn_titled = nn_output
    /\ (nn_pc = "normalized" /\ toLowerCase(nn_input) \in TitleWords) => nn_output = ""

HasDoubleSpace(s) == \E i \in 1..(Len(s) - 1) : IsSpace(CharAt(s, i)) /\ IsSpace(CharAt(s, i + 1))

IsTrimmed(s) == s = "" \/ (~IsSpace(CharAt(s, 1)) /\ ~IsSpace(LastChar(s)))

\* C6 as stated: the output of normalizeName has no leading or trailing
\* whitespace and never two consecutive whitespace characters.
C6_CollapsedAndTrimmed ==
    nn_pc = "normalized" => IsTrimmed(nn_output) /\ ~HasDoubleSpace(nn_output)

\* C6 as amended: the output of normalizeName has no leading and no
\* trailing whitespace (interior whitespace is left as it is).
C6_Trimmed == nn_pc = "normalized" => IsTrimmed(nn_output)

\* C6 witness: a name with whitespace at both ends and letters in between
\* has been normalized.
C6_Witness ==
    /\ nn_pc = "normalized"
    /\ nn_input # ""
    /\ IsSpace(CharAt(nn_input, 1))
    /\ IsSpace(LastChar(nn_input))
    /\ nn_output # ""

---------------------------------------------------------------------------
(* Claims about isNameMatch, checked under SpecMatch *)

\* The lowercased, trimmed name isNameMatch compares (its t and s).
Lowered(name) == trim(toLowerCase(name))

\* The tokens of a name after title stripping (cleanSParts, cleanTParts).
CleanParts(name) == NonEmptyParts(SplitChar(RemoveTitleWords(Lowered(name)), " "))

\* The query tokens that have a corresponding candidate token.
Corresponding(query, candidate) ==
    {i \in 1..Len(CleanParts(query)) :
        \E k \in 1..Len(CleanParts(candidate)) :
            TokenCorresponds(CleanParts(query)[i], CleanParts(candidate)[k])}

\* max(2, ceil(0.5 * n))
RequiredMatches(n) == IF (n + 1) \div 2 > 2 THEN (n + 1) \div 2 ELSE 2

\* One name is longer than 3 characters, is contained in the other and is
\* more than 40% of its length.
WholeNameContainment(a, b) ==
    \/ Len(a) > 3 /\ includes(b, a) /\ 10 * Len(a) > 4 * Len(b)
    \/ Len(b) > 3 /\ includes(a, b) /\ 10 * Len(b) > 4 * Len(a)

\* C7 as stated: a candidate whose name is not string-equal to the query is
\* accepted only if the first query token has a corresponding candidate token
\* and at least max(2, ceil(0.5 * n)) of the n query tokens have one.
C7_AcceptanceRule ==
    (im_pc = "returned" /\ matchResult /\ Lowered(teacherName) # Lowered(searchName)) =>
        /\ 1 \in Corresponding(searchName, teacherName)
        /\ Cardinality(Corresponding(searchName, teacherName))
               >= RequiredMatches(Len(CleanParts(searchName)))

\* C7 as amended: a candidate whose name is not string-equal to the query is
\* accepted only if (a) one lowercased, trimmed name is longer than 3
\* characters, is contained in the other and is more than 40% of its length,
\* or (b) the names are equal after title stripping, or (c) the token loop
\* found a correspondence for the first query token and for at least
\* max(2, ceil(0.5 * n)) of the n query tokens. hasFirstNameMatch is set
\* exactly when the first query token has a corresponding candidate token.
C7_AcceptancePaths ==
    /\ (im_pc = "returned" /\ matchResult /\ Lowered(teacherName) # Lowered(searchName)) =>
          \/ WholeNameContainment(Lowered(searchName), Lowered(teacherName))
          \/ RemoveTitleWords(Lowered(teacherName)) = RemoveTitleWords(Lowered(searchName))
          \/ /\ hasFirstNameMatch
             /\ actualMatches >= RequiredMatches(Len(CleanParts(searchName)))
    /\ (im_pc = "returned" /\ returnLine = 229) =>
          /\ hasFirstNameMatch <=> 1 \in Corresponding(searchName, teacherName)
          /\ actualMatches = Cardinality(Corresponding(searchName, teacherName))

\* C7 witness: a candidate was accepted by the token rule alone (no
\* containment of whole names, names not equal after title stripping).
C7_Witness ==
    /\ im_pc = "returned"
    /\ matchResult
    /\ returnLine = 229
    /\ actualMatches >= 2
    /\ hasFirstNameMatch

\* A query of one token against a candidate of two or more tokens
\* (tokens of the title-stripped names).
SingleTokenQuery ==
    /\ im_pc = "returned"
    /\ Len(CleanParts(searchName)) = 1
    /\ Len(CleanParts(teacherName)) >= 2

\* C10 as stated: a query of a single token is never matched to a candidate
\* whose name has two or more tokens.
C10_SingleTokenNeverMatches == SingleTokenQuery => ~matchResult

\* C10 as amended: a query of a single token is matched to a candidate of
\* two or more tokens only by the whole-name containment rule (lines 79-80):
\* one lowercased, trimmed name is longer than 3 characters, is contained in
\* the other and is more than 40% of its length; never by the token rule.
C10_SingleTokenOnlyByContainment ==
    (SingleTokenQuery /\ matchResult) =>
        /\ returnLine \in {79, 80}
        /\ WholeNameContainment(Lowered(searchName), Lowered(teacherName))

\* C10 witness: a single-token query was matched to a candidate of two or
\* more tokens.
C10_Witness == SingleTokenQuery /\ matchResult

---------------------------------------------------------------------------
(* Claims about searchProfessor, checked under Spec *)

\* The call has looked the name up in a built index.
LookedUp == sp_pc \in {"detail", "done"} /\ indexBuilt

Selected == matchingProf # NullProf

\* C1: the match decision over the index-narrowed candidates is the decision
\* of isNameMatch over the full roster: a professor is selected exactly when
\* isNameMatch accepts some professor of the roster for the query.
C1_IndexEquivalence ==
    LookedUp =>
        (Selected <=> \E i \in 1..Len(professors) : isNameMatch(professors[i].name, sp_name))

\* The last token of a title-stripped name, tokens being delimited by
\* whitespace and hyphens.
RECURSIVE SplitHyphens(_)
SplitHyphens(parts) ==
    IF parts = <<>> THEN <<>>
    ELSE NonEmptyParts(SplitChar(Head(parts), "-")) \o SplitHyphens(Tail(parts))

SurnameOf(name) ==
    LET tokens == SplitHyphens(CleanParts(name))
    IN  IF tokens = <<>> THEN "" ELSE tokens[Len(tokens)]

\* C2: a selected professor has the surname (last token) of the query.
C2_SurnameGate == (LookedUp /\ Selected) => SurnameOf(matchingProf.name) = SurnameOf(sp_name)

\* C8: when the roster holds a professor whose name equals the query, the
\* professor selected has exactly that name.
C8_ExactNameSelected ==
    (LookedUp /\ \E i \in 1..Len(professors) : professors[i].name = sp_name) =>
        (Selected /\ matchingProf.name = sp_name)

\* The query is one token that equals one hyphen-separated part of the last
\* token of the candidate's name.
HyphenPartOfSurname(query, candidate) ==
    LET q == Lowered(query)
        parts == NonEmptyParts(SplitChar(Lowered(candidate), " "))
    IN  /\ q # "" /\ ~includes(q, " ") /\ ~includes(q, "-")
        /\ parts # <<>>
        /\ includes(parts[Len(parts)], "-")
        /\ \E k \in 1..Len(SplitChar(parts[Len(parts)], "-")) :
               SplitChar(parts[Len(parts)], "-")[k] = q

\* C9 as stated: a single-token query that equals one hyphen-separated part
\* of the surname of the (only) candidate is matched to that candidate.
C9_HyphenPartMatches ==
    (LookedUp /\ Len(professors) = 1 /\ HyphenPartOfSurname(sp_name, professors[1].name)) =>
        matchingProf = professors[1]

\* C9 as amended: such a query is matched to that candidate only when the
\* query is longer than 3 characters and more than 40% of the length of the
\* candidate's whole name (the containment rule of line 79); when that holds
\* and the query is not itself a title, the candidate is in the narrowed set
\* (the hyphen part is one of its keys) and a professor is selected.
C9_HyphenPartOnlyByContainment ==
    LookedUp =>
        \A i \in 1..Len(professors) :
            HyphenPartOfSurname(sp_name, professors[i].name) =>
                LET long == /\ Len(Lowered(sp_name)) > 3
                            /\ 10 * Len(Lowered(sp_name)) > 4 * Len(Lowered(professors[i].name))
                IN  /\ matchingProf = professors[i] => long
                    /\ (long /\ Lowered(sp_name) \notin TitleWords) =>
                          /\ \E k \in 1..Len(candidateProfs) : candidateProfs[k] = professors[i]
                          /\ Selected
                          /\ Len(professors) = 1 => matchingProf = professors[1]

\* C9 witness: a single-token query that is a hyphen part of a candidate's
\* surname was looked up and that candidate was selected.
C9_Witness ==
    /\ LookedUp
    /\ \E i \in 1..Len(professors) :
          /\ HyphenPartOfSurname(sp_name, professors[i].name)
          /\ matchingProf = professors[i]

---------------------------------------------------------------------------
(* Claims about generateSearchNames, checked under SpecSearchNames *)

InSeq(x, seq) == \E i \in 1..Len(seq) : seq[i] = x

\* The tokens of a name written "F A-B": a first name, a space, and a
\* surname of two hyphen-joined parts (<<>> for a name of another form).
FirstAndHyphenated(name) ==
    LET words == SplitChar(Lowered(name), " ")
        subs == IF Len(words) = 2 THEN SplitChar(words[2], "-") ELSE <<>>
    IN  IF /\ Len(words) = 2 /\ Len(subs) = 2
           /\ ~includes(words[1], "-")
           /\ \A k \in 1..2 : Len(subs[k]) > 0
           /\ Len(words[1]) > 0
        THEN <<words[1], subs[1], subs[2]>>
        ELSE <<>>

\* C11: for a name "F A-B" the variations contain "f a b", each of f, a, b
\* that is longer than one character, "f b" and "<initial of f> b".
C11_HyphenatedSurnameKeys ==
    (gsn_pc = "returned" /\ FirstAndHyphenated(fullName) # <<>>) =>
        LET f == FirstAndHyphenated(fullName)[1]
            a == FirstAndHyphenated(fullName)[2]
            b == FirstAndHyphenated(fullName)[3]
        IN  /\ InSeq(f \o " " \o a \o " " \o b, variations)
            /\ \A part \in {f, a, b} : Len(part) > 1 => InSeq(part, variations)
            /\ InSeq(f \o " " \o b, variations)
            /\ InSeq(CharAt(f, 1) \o " " \o b, variations)

\* The professors of a roster, as fetched (ids are positions).
AsRoster(entries) ==
    [i \in 1..Len(entries) |->
        [id |-> i, name |-> entries[i].name, num_ratings |-> entries[i].num_ratings]]

\* a and b are a nickname and its full form in the table of isNameMatch.
NicknamePair(a, b) == b \in VariantsOf(a) \/ a \in VariantsOf(b)

\* Two names "n S" and "f S": two tokens each, the same surname, and first
\* names that are a nickname pair.
NicknameForms(query, candidate) ==
    LET q == SplitChar(Lowered(query), " ")
        c == SplitChar(Lowered(candidate), " ")
    IN  /\ Len(q) = 2 /\ Len(c) = 2
        /\ q[2] = c[2]
        /\ NicknamePair(q[1], c[1])

\* The search with query and candidate exchanged: the roster holds only a
\* professor named as the query, and the candidate's name is the query.
SwappedSelects ==
    SearchSelects(AsRoster(<<[name |-> sp_name, num_ratings |-> professors[1].num_ratings]>>),
                  professors[1].name)

\* C12: nickname matching is symmetric: when query "n S" is matched to the
\* only roster candidate "f S", (n, f) a nickname pair, then query "f S" is
\* matched to a roster whose only candidate is "n S".
C12_NicknameSymmetry ==
    (LookedUp /\ Len(professors) = 1 /\ NicknameForms(sp_name, professors[1].name) /\ Selected)
        => SwappedSelects # NullProf

\* C12 witness: a query "n S" was matched to the only candidate "f S" where
\* f is listed as a variant of n but n is no key of the table.
C12_Witness ==
    /\ LookedUp /\ Len(professors) = 1
    /\ NicknameForms(sp_name, professors[1].name)
    /\ SplitChar(Lowered(professors[1].name), " ")[1] \notin DOMAIN nicknameMap
    /\ matchingProf = professors[1]

\* The query is the first letter of the candidate's first name followed by
\* the candidate's last name, the candidate's name having two tokens.
InitialForm(query, candidate) ==
    LET c == SplitChar(Lowered(candidate), " ")
    IN  /\ Len(c) = 2 /\ Len(c[1]) > 0 /\ Len(c[2]) > 0
        /\ Lowered(query) = CharAt(c[1], 1) \o " " \o c[2]

\* C13: initial matching: the query made of the first letter of First and of
\* Last is matched to the only roster candidate "First Last".
C13_InitialMatches ==
    (LookedUp /\ Len(professors) = 1 /\ InitialForm(sp_name, professors[1].name))
        => matchingProf = professors[1]

\* The fetched roster with its professors in the order given by perm.
Reordered(perm) == AsRoster([i \in 1..Len(professors) |-> professors[perm[i]]])

\* The same roster candidate (or none in both cases), whatever its position.
SameCandidate(a, b) == a.name = b.name /\ a.num_ratings = b.num_ratings

\* C14: order independence: for the query of the call, every reordering of
\* the fetched roster selects the candidate the call selected.
C14_OrderIndependent ==
    LookedUp =>
        \A perm \in Permutations(1..Len(professors)) :
            SameCandidate(SearchSelects(Reordered(perm), sp_name), matchingProf)

\* The call has passed the lookup (whether or not the index was available).
PastLookup == sp_pc \in {"detail", "done"}

\* C15: malformed input never matches: a call with a name that is empty, or
\* empty after title and punctuation stripping, selects no professor and
\* returns null.
C15_MalformedNeverMatches ==
    (PastLookup /\ normalizeName(sp_name) = "") =>
        /\ ~Selected
        /\ sp_pc = "done"
        /\ sp_result.kind = "null"

\* C16: index coverage: once the index is built from the fetched roster,
\* every professor of the roster is in the list of the key equal to its own
\* cleaned full name, and a lookup with the keys generated from its own name
\* returns it.
C16_IndexCoverage ==
    indexBuilt =>
        \A i \in 1..Len(professors) :
            /\ cleanNameOf(professors[i].name) \in DOMAIN professorIndex
            /\ InSeq(professors[i], professorIndex[cleanNameOf(professors[i].name)])
            /\ InSeq(professors[i],
                     CollectCandidates(professorIndex,
                                       generateSearchKeys(professors[i].name), <<>>))

\* C16 witness: an index was built from a roster of two professors, one of
\* them with a name of three tokens (its full name is not first + last).
C16_Witness ==
    /\ indexBuilt
    /\ Len(professors) = 2
    /\ \E i \in 1..2 : Len(CleanParts(professors[i].name)) = 3
    /\ DOMAIN professorIndex # {}

---------------------------------------------------------------------------
(* Claims about getMultipleProfessors, checked under SpecBatch *)

\* The professors of roster that have key among their search keys, in
\* roster order.
ProfessorsWithKey(roster, key) ==
    SelectSeq(roster, LAMBDA prof : InSeq(key, generateSearchKeys(prof.name)))

\* The index holds exactly the (key, professor) entries derived from roster.
IndexIsExactly(roster) ==
    /\ \A key \in DOMAIN professorIndex :
          /\ professorIndex[key] # <<>>
          /\ professorIndex[key] = ProfessorsWithKey(roster, key)
    /\ \A i \in 1..Len(roster) :
          \A k \in 1..Len(generateSearchKeys(roster[i].name)) :
              generateSearchKeys(roster[i].name)[k] \in DOMAIN professorIndex

\* C17: rebuild is full replacement: after any sequence of
\* buildProfessorIndex calls the index holds exactly the entries derived
\* from the roster of the most recent call.
C17_FullReplacement == buildCount > 0 => IndexIsExactly(builtRoster)

\* C17 witness: the index was rebuilt from a non-empty roster after it had
\* been built from a roster that had a key the new roster does not have.
C17_Witness ==
    /\ buildCount >= 2
    /\ builtRoster # <<>>
    /\ \E i \in 1..Len(replacedRoster) :
          \A j \in 1..Len(builtRoster) :
              ~InSeq(cleanNameOf(replacedRoster[i].name),
                     generateSearchKeys(builtRoster[j].name))

\* C18: during one getMultipleProfessors call the roster is fetched exactly
\* once and the index is built at most that once, however many names are
\* looked up.
C18_FetchedOnce == mp_pc = "done" => (fetchCount = 1 /\ buildCount <= 1)

---------------------------------------------------------------------------
(* Claims about ProfessorService, checked under SpecService *)

\* The last getProfessorData call has returned.
CallReturned == callCount > 0 /\ ps_pc = "idle"

\* C19: not found on RMP is remembered: when a call for a name that is not
\* in the table got no professor from RateMyProfessors, a row with rmpId
\* null is stored for that name; and a call does not send a request for a
\* name that the call before, less than 30 days earlier, did not find.
C19_NotFoundRemembered ==
    /\ (CallReturned /\ ps_cached = <<>> /\ ps_requested /\ ps_node = <<>>) =>
          \E i \in rowsFor(db, ps_name) : db[i].rmpId = Null
    /\ ~ /\ ps_pc = "fetch"
         /\ ps_prev.notFound
         /\ ps_prev.name = ps_name
         /\ ps_at - ps_prev.at < StaleTicks

\* C20: staleness threshold: a call that found a row sends a request to
\* RateMyProfessors whenever the row was last checked more than 30 days
\* before the call, and returns the row without a request whenever it was
\* last checked less than 30 days before.
C20_StalenessThreshold ==
    (callCount > 0 /\ ps_pc \in {"idle", "refresh"} /\ ps_cached # <<>>) =>
        /\ ps_at - ps_cached[1].lastCheckedAt > StaleTicks => ps_requested
        /\ ps_at - ps_cached[1].lastCheckedAt < StaleTicks =>
              (~ps_requested /\ ps_result = ps_cached)

\* The call in progress or just returned follows, less than 30 days later
\* and with the same name, a call that fetched a professor from
\* RateMyProfessors and stored it; findInDatabase has answered.
RepeatsStoredCall ==
    /\ callCount > 1
    /\ ps_pc # "find"
    /\ ps_prev.stored
    /\ ps_prev.name = ps_name
    /\ ps_at - ps_prev.at < StaleTicks

\* C21: cache hit after store: a second getProfessorData(name) with the
\* same name, within 30 days of the call that fetched and stored the
\* professor, finds a record in the table and returns it, sends no request
\* to RateMyProfessors and creates no record.
C21_CacheHitAfterStore ==
    RepeatsStoredCall =>
        /\ ps_cached # <<>>
        /\ ~ps_requested
        /\ ps_result = ps_cached

\* C25: unique professor rows: the Professor table never holds two rows
\* with the same (non-null) rmpId.
C25_UniqueRmpId ==
    \A i, j \in 1..Len(db) :
        (i # j /\ db[i].rmpId # Null) => db[i].rmpId # db[j].rmpId

\* The step in which a refresh ends with no node from RateMyProfessors
FailedRefreshStep == ps_pc = "refresh" /\ ps_pc' = "idle" /\ ps_node' = <<>>

\* C27: failed refresh leaves data intact: when the refresh of a stale row
\* gets no usable match from RateMyProfessors, the row keeps its rating
\* count, fullName, rmpId and searchNames, its lastCheckedAt becomes now,
\* every other row stays as it was, and getProfessorData returns the row it
\* had read, not null.
C27_FailedRefreshKeepsData ==
    [][FailedRefreshStep =>
          /\ Len(db') = Len(db)
          /\ \A i \in 1..Len(db) :
                IF db[i].id = ps_cached[1].id
                THEN /\ db'[i].id = db[i].id
                     /\ db'[i].numRatings = db[i].numRatings
                     /\ db'[i].fullName = db[i].fullName
                     /\ db'[i].rmpId = db[i].rmpId
                     /\ db'[i].searchNames = db[i].searchNames
                     /\ db'[i].lastCheckedAt = now
                ELSE db'[i] = db[i]
          /\ ps_result' # <<>>
          /\ ps_result' = ps_cached]_vars

\* C27 witness: a call has returned after a refresh that got no node; the
\* row it returned was last checked 31 days or more before, and the row in
\* the table is marked checked at the time of the call.
C27_Witness ==
    /\ CallReturned
    /\ ps_cached # <<>>
    /\ ps_requested
    /\ ps_node = <<>>
    /\ ps_result = ps_cached
    /\ ps_at - ps_cached[1].lastCheckedAt > StaleTicks
    /\ \E i \in 1..Len(db) : db[i].id = ps_cached[1].id /\ db[i].lastCheckedAt = ps_at

---------------------------------------------------------------------------
(* Claims about concurrent getProfessorData calls, checked under           *)
(* SpecConcurrent                                                          *)

\* C26: two concurrent getProfessorData calls for the same name, which the
\* table did not hold before them, create at most one row between them.
C26_OneRowPerName ==
    \A c1, c2 \in Calls :
        (/\ c1 # c2
         /\ cc_pc[c1] # "idle"
         /\ cc_pc[c2] # "idle"
         /\ cc_name[c1] = cc_name[c2]
         /\ rowsFor(cc_db0, cc_name[c1]) = {}) =>
            createCount <= 1

---------------------------------------------------------------------------
(* Claims about fetchProfessorFromRmp, checked under SpecFetch *)

\* The last space-separated token of a normalized name, "" when it has none
LastToken(normalized) ==
    IF SpaceParts(normalized) = <<>> THEN ""
    ELSE SpaceParts(normalized)[Len(SpaceParts(normalized))]

\* The last token of a node's normalized full name
NodeSurname(node) == LastToken(normalizeName(buildFullName(node)))

\* C22: surname gate: fetchProfessorFromRmp only returns a node of the
\* response whose normalized last name token equals the last token of the
\* normalized query, and returns null when no node of the response has that
\* surname or the query normalizes to the empty string.
C22_SurnameGate ==
    rf_pc = "returned" =>
        /\ rf_node # <<>> =>
              /\ InSeq(rf_node[1], rf_edges)
              /\ LastToken(normalizeName(rf_name)) # ""
              /\ NodeSurname(rf_node[1]) = LastToken(normalizeName(rf_name))
        /\ (\/ normalizeName(rf_name) = ""
            \/ \A i \in 1..Len(rf_edges) :
                  NodeSurname(rf_edges[i]) # LastToken(normalizeName(rf_name))) =>
              rf_node = <<>>

\* C22 witness: a node was returned from a response that also held a node
\* with another surname in front of it.
C22_Witness ==
    /\ rf_pc = "returned"
    /\ rf_node # <<>>
    /\ Len(rf_edges) > 1
    /\ NodeSurname(rf_edges[1]) # LastToken(normalizeName(rf_name))
    /\ NodeSurname(rf_edges[1]) # ""

\* The positions of the response whose node passes the surname gate
PassesGate ==
    {i \in 1..Len(rf_edges) :
        /\ LastToken(normalizeName(rf_name)) # ""
        /\ NodeSurname(rf_edges[i]) = LastToken(normalizeName(rf_name))}

\* The score of the node at position i of the response
ScoreAt(i) == scoreCandidate(rf_edges[i], normalizeName(rf_name))

\* C23: best candidate: when several nodes of an ok response pass the
\* surname gate, the node returned is one of them, none of them has a
\* higher score, and none of those with its score has a higher numRatings.
C23_BestCandidate ==
    (rf_pc = "returned" /\ rf_ok /\ Cardinality(PassesGate) > 1) =>
        \E b \in PassesGate :
            /\ rf_node = <<rf_edges[b]>>
            /\ \A i \in PassesGate :
                  /\ ScoreAt(i) <= ScoreAt(b)
                  /\ ScoreAt(i) = ScoreAt(b) =>
                        rf_edges[i].numRatings <= rf_edges[b].numRatings

\* C23 witness: three nodes pass the gate; the first has the lowest score,
\* the other two the same higher score, and the last one, with the most
\* ratings, is returned.
C23_Witness ==
    /\ rf_pc = "returned"
    /\ rf_ok
    /\ PassesGate = {1, 2, 3}
    /\ ScoreAt(1) < ScoreAt(2)
    /\ ScoreAt(2) = ScoreAt(3)
    /\ rf_edges[2].numRatings < rf_edges[3].numRatings
    /\ rf_node = <<rf_edges[3]>>

---------------------------------------------------------------------------
(* Claims about the token loop of isNameMatch, checked under SpecToken *)

\* inner occurs in outer as a run of consecutive characters
OccursIn(inner, outer) ==
    \E i \in 0..(Len(outer) - Len(inner)) : SubSeq(outer, i + 1, i + Len(inner)) = inner

\* One of the two tokens contains the other.
OneContainsOther == OccursIn(tk_sPart, tk_tPart) \/ OccursIn(tk_tPart, tk_sPart)

ShorterLen == Min({Len(tk_sPart), Len(tk_tPart)})

LongerLen == Max({Len(tk_sPart), Len(tk_tPart)})

\* The tokens correspond by another rule of the loop (equality, initial,
\* nickname, hyphen part).
ByOtherRule == tk_line \notin {0, 168}

\* C24: token substring rule: two tokens that no other rule of the loop
\* makes correspond correspond by substring containment exactly when one
\* contains the other and the length of the shorter is at least 50% of the
\* length of the longer.
C24_SubstringAtLeastHalf ==
    (tk_pc = "returned" /\ ~ByOtherRule) =>
        (tk_found <=> (OneContainsOther /\ 2 * ShorterLen >= LongerLen))

\* C24 as amended: two different tokens correspond by the substring rule
\* exactly when both are longer than 2 characters, one contains the other
\* and the length of the shorter is more than 50% of the length of the
\* longer; and then the pass finds a match.
C24_SubstringMoreThanHalf ==
    tk_pc = "returned" =>
        /\ tk_line = 168 <=>
              /\ tk_sPart # tk_tPart
              /\ ShorterLen > 2
              /\ OneContainsOther
              /\ 2 * ShorterLen > LongerLen
        /\ tk_found <=> tk_line # 0

\* C24 witness: a candidate token longer than the query token it contains,
\* matched by the substring rule.
C24_Witness ==
    /\ tk_pc = "returned"
    /\ tk_line = 168
    /\ tk_found
    /\ Len(tk_sPart) < Len(tk_tPart)

---------------------------------------------------------------------------
(* Claims about concurrent searchProfessor calls, checked under            *)
(* SpecSearches                                                            *)

\* Call c has resumed after its await of getProfessorList().
Resumed(c) == cs_pc[c] \in {"detail", "done"}

\* C28: no result from a stale index: a searchProfessor call whose own
\* roster fetch failed returns null.
C28_FailedFetchReturnsNull ==
    \A c \in Searches :
        (cs_pc[c] = "done" /\ cs_fetch[c] = "failed") => cs_result[c].kind = "null"

\* C29: build before lookup: whenever a call can look the index up
\* (indexBuilt is set), the index holds exactly the entries of the roster
\* of the most recent build, and that roster is the one a single fetch of
\* one of the calls returned.
C29_BuildBeforeLookup ==
    indexBuilt =>
        /\ IndexIsExactly(cs_built)
        /\ \E d \in Searches : cs_fetch[d] = "ok" /\ cs_roster[d] = cs_built

\* C29 witness: a call selected a professor object of the roster another
\* call fetched: its lookup read the index the other call had built.
C29_Witness ==
    \E c, d \in Searches :
        /\ c # d
        /\ Resumed(c)
        /\ cs_selected[c] # NullProf
        /\ InSeq(cs_selected[c], cs_roster[d])
        /\ cs_roster[c] # <<>>

\* C30: isolation of concurrent searches: a call whose own roster fetch
\* succeeded does not report the index as unavailable, and selects the
\* professor it selects when run alone on the roster it fetched.
C30_Isolation ==
    \A c \in Searches :
        (Resumed(c) /\ cs_fetch[c] = "ok") =>
            /\ ~cs_unavailable[c]
            /\ SameCandidate(cs_selected[c], SearchSelects(cs_roster[c], cs_name[c]))

=============================================================================
